---- MODULE Spec2Model ----
(***************************************************************************)
(* Model of the composite Bezier patch of bezier-mesh-projection.js (the   *)
(* latest snapshot, lines 3447-5666): Grid, Domain, ControlPoint,          *)
(* BezierPatch3, History and Patch, with the host's handlers.              *)
(*                                                                         *)
(* Numbers.  A JavaScript number is modelled as an exact rational <<n,d>>  *)
(* in lowest terms with d > 0; the pair <<0,0>> stands for a non-finite    *)
(* value (NaN, the result of 0/0), which every operation propagates.       *)
(* Rounding of IEEE doubles is not modelled.                               *)
(*                                                                         *)
(* Objects.  Control points live in the sequence points (the heap): a      *)
(* control point object is its index, so "the same object" is "the same    *)
(* index".  Objects are never reclaimed.  A BezierPatch3 object is the     *)
(* record of a grid cell, identified by its id.                            *)
(***************************************************************************)
EXTENDS Integers, Sequences, FiniteSets, TLC

VARIABLES points, bezierPatches, patchCount, saved, moves, last, history,
          selectedControlPoints, textures

vars == <<points, bezierPatches, patchCount, saved, moves, last, history,
          selectedControlPoints, textures>>

(* ------------------------------ bounds -------------------------------- *)

\* Number of drag moves in one behaviour.
MaxMoves == 1
\* Capacity of the heap of control point objects: an operation that would
\* allocate beyond it is not taken.
MaxPoints == 49

(* ------------------------------ numbers ------------------------------- *)

Abs(x) == IF x < 0 THEN -x ELSE x

RECURSIVE GCD(_, _)
GCD(a, b) == IF b = 0 THEN a ELSE GCD(b, a % b)

NaN == <<0, 0>>

\* The number n/d.
R(n, d) ==
    IF d = 0 THEN NaN
    ELSE LET g == GCD(Abs(n), Abs(d))
             s == IF d < 0 THEN -1 ELSE 1
         IN  <<(s * n) \div g, (s * d) \div g>>

IsNaN(a) == a[2] = 0

Zero == <<0, 1>>
One == <<1, 1>>

RAdd(a, b) ==
    IF IsNaN(a) \/ IsNaN(b) THEN NaN
    ELSE IF a[1] = 0 THEN b
    ELSE IF b[1] = 0 THEN a
    ELSE IF a[2] = b[2] THEN R(a[1] + b[1], a[2])
    ELSE LET g == GCD(a[2], b[2])
         IN  R(a[1] * (b[2] \div g) + b[1] * (a[2] \div g), a[2] * (b[2] \div g))

RNeg(a) == <<-a[1], a[2]>>

RSub(a, b) == RAdd(a, RNeg(b))

RMul(a, b) ==
    IF IsNaN(a) \/ IsNaN(b) THEN NaN
    ELSE IF a[1] = 0 \/ b[1] = 0 THEN Zero
    ELSE IF a[2] = 1 /\ b[2] = 1 THEN <<a[1] * b[1], 1>>
    ELSE LET g1 == GCD(Abs(a[1]), b[2])
             g2 == GCD(Abs(b[1]), a[2])
         IN  <<(a[1] \div g1) * (b[1] \div g2), (a[2] \div g2) * (b[2] \div g1)>>

\* a / b; a division by zero gives the non-finite value.
RDiv(a, b) ==
    IF IsNaN(a) \/ IsNaN(b) \/ b[1] = 0 THEN NaN
    ELSE RMul(a, R(b[2], b[1]))

\* a <= b; every comparison with NaN is false.
RLe(a, b) == ~IsNaN(a) /\ ~IsNaN(b) /\ a[1] * b[2] <= b[1] * a[2]

RLt(a, b) == ~IsNaN(a) /\ ~IsNaN(b) /\ a[1] * b[2] < b[1] * a[2]

\* a + (b - a) * t, the arithmetic of one component of Vector3.lerp.
RLerp(a, b, t) ==
    IF IsNaN(a) \/ IsNaN(b) \/ IsNaN(t) THEN NaN
    ELSE IF a = b THEN a
    ELSE R(a[1] * b[2] * t[2] + (b[1] * a[2] - a[1] * b[2]) * t[1], a[2] * b[2] * t[2])

(* --------------------------- THREE.Vector3 ---------------------------- *)

Vec(x, y, z) == <<x, y, z>>

VAdd(a, b) == <<RAdd(a[1], b[1]), RAdd(a[2], b[2]), RAdd(a[3], b[3])>>

VSub(a, b) == <<RSub(a[1], b[1]), RSub(a[2], b[2]), RSub(a[3], b[3])>>

VScale(a, s) == <<RMul(a[1], s), RMul(a[2], s), RMul(a[3], s)>>

\* a.lerp(b, t): a += (b - a) * t
VLerp(a, b, t) == <<RLerp(a[1], b[1], t), RLerp(a[2], b[2], t), RLerp(a[3], b[3], t)>>

VZero == <<Zero, Zero, Zero>>

(* -------------------------------- Grid -------------------------------- *)

\* An empty slot of the grid (null).
NullCell == [id |-> 0, domain |-> <<>>, controlPoints |-> <<>>]

\* A slot of the array that was never assigned (it reads undefined).
EmptySlot == [id |-> -1, domain |-> <<>>, controlPoints |-> <<>>]

Min(a, b) == IF a < b THEN a ELSE b

Max(a, b) == IF a < b THEN b ELSE a

\* Array.prototype.splice(start, deleteCount, ...items), start counted from 0.
Splice(s, start, deleteCount, items) ==
    LET st == Min(Max(start, 0), Len(s))
        dc == Min(Max(deleteCount, 0), Len(s) - st)
    IN  SubSeq(s, 1, st) \o items \o SubSeq(s, st + dc + 1, Len(s))

Nulls(n) == [k \in 1..n |-> NullCell]

\* new Grid(rows, cols)
NewGrid(rows, cols) ==
    [rowCount |-> IF rows = 0 THEN 1 ELSE rows,
     colCount |-> IF cols = 0 THEN 1 ELSE cols,
     cells |-> Nulls(rows * cols)]

\* Patch.bezierPatches = [] (the state dispose() leaves): an array, no grid.
NoGrid == [rowCount |-> 0, colCount |-> 0, cells |-> <<>>]

\* A faulty get that tests the row only: a column out of range reads the
\* array at the computed index (undefined beyond its ends).
GridGetRowChecked(g, i, j) ==
    LET n == i * g.colCount + j + 1
    IN  IF i < 0 \/ i > g.rowCount - 1 \/ n < 1 \/ n > Len(g.cells)
        THEN NullCell
        ELSE g.cells[n]

\* Grid.get(i, j): null when out of bounds; an index in bounds that the
\* array does not reach reads undefined.
GridGet(g, i, j) ==
    IF i < 0 \/ i > g.rowCount - 1 \/ j < 0 \/ j > g.colCount - 1
    THEN NullCell
    ELSE IF i * g.colCount + j + 1 > Len(g.cells) THEN EmptySlot
    ELSE g.cells[i * g.colCount + j + 1]

\* Grid.set(i, j, v), i and j not negative: an assignment beyond the end of
\* the array lengthens it, leaving empty slots in between.
GridSet(g, i, j, v) ==
    IF i * g.colCount + j + 1 <= Len(g.cells)
    THEN [g EXCEPT !.cells[i * g.colCount + j + 1] = v]
    ELSE [g EXCEPT !.cells =
             g.cells \o [k \in 1..(i * g.colCount + j - Len(g.cells)) |-> EmptySlot]
                     \o <<v>>]

RECURSIVE DeleteColumnLoop(_, _, _, _)
DeleteColumnLoop(cells, colCount, j, i) ==
    IF i < 0 THEN cells
    ELSE DeleteColumnLoop(Splice(cells, i * colCount + j, 1, <<>>), colCount, j, i - 1)

\* Grid.deleteColumn(j)
DeleteColumn(g, j) ==
    [g EXCEPT !.cells = DeleteColumnLoop(g.cells, g.colCount, j, g.rowCount - 1),
              !.colCount = g.colCount - 1]

\* A faulty deleteRow that removes the row after i.
DeleteRowAfter(g, i) ==
    [g EXCEPT !.cells = Splice(g.cells, (i + 1) * g.colCount, g.colCount, <<>>),
              !.rowCount = g.rowCount - 1]

\* Grid.deleteRow(i)
DeleteRow(g, i) ==
    [g EXCEPT !.cells = Splice(g.cells, i * g.colCount, g.colCount, <<>>),
              !.rowCount = g.rowCount - 1]

\* Grid.inserRow(index)
InserRow(g, index) ==
    [g EXCEPT !.cells = Splice(g.cells, index * g.colCount, 0, Nulls(g.colCount)),
              !.rowCount = g.rowCount + 1]

\* A faulty loop of insertColumn that forgets that each earlier insertion
\* has made the rows one cell longer.
RECURSIVE InsertColumnLoopUnshifted(_, _, _, _, _)
InsertColumnLoopUnshifted(cells, rowCount, colCount, index, i) ==
    IF i >= rowCount THEN cells
    ELSE InsertColumnLoopUnshifted(Splice(cells, i * colCount + index, 0, <<NullCell>>),
                                   rowCount, colCount, index, i + 1)

RECURSIVE InsertColumnLoop(_, _, _, _, _)
InsertColumnLoop(cells, rowCount, colCount, index, i) ==
    IF i >= rowCount THEN cells
    ELSE InsertColumnLoop(Splice(cells, i * (colCount + 1) + index, 0, <<NullCell>>),
                          rowCount, colCount, index, i + 1)

\* Grid.insertColumn(index)
InsertColumn(g, index) ==
    [g EXCEPT !.cells = InsertColumnLoop(g.cells, g.rowCount, g.colCount, index, 0),
              !.colCount = g.colCount + 1]

\* Grid.rows(): the rows as sequences of cells.
Rows(g) ==
    [i \in 1..g.rowCount |-> [j \in 1..g.colCount |-> g.cells[(i - 1) * g.colCount + j]]]

\* Grid.columns()
Columns(g) ==
    [j \in 1..g.colCount |-> [i \in 1..g.rowCount |-> g.cells[(i - 1) * g.colCount + j]]]

\* A faulty findIndex that answers 0 when no element satisfies the predicate.
FindIndexOrFirst(hits) ==
    IF hits = {} THEN 0 ELSE CHOOSE k \in hits : \A m \in hits : k <= m

\* Array.prototype.findIndex over the index range 0..n-1 of a predicate given
\* as the set of indices that satisfy it: the least one, or -1.
FindIndex(hits) ==
    IF hits = {} THEN -1 ELSE CHOOSE k \in hits : \A m \in hits : k <= m

(* ------------------------------- Domain ------------------------------- *)

\* A faulty constructor that takes its arguments as (u0, u1, v0, v1).
DomainArgsMixed(u0, v0, u1, v1) == [u0 |-> u0, u1 |-> v0, v0 |-> u1, v1 |-> v1]

\* new Domain(u0, v0, u1, v1)
Domain(u0, v0, u1, v1) == [u0 |-> u0, u1 |-> u1, v0 |-> v0, v1 |-> v1]

\* Domain.contains(u, v) as an earlier version of the library had it
\* (src/unnamed/part_000, line 214): u is tested against v1.
DomainContainsEarlier(d, u, v) ==
    RLe(d.u0, u) /\ RLe(u, d.v1) /\ RLe(d.v0, v) /\ RLe(v, d.v1)

\* Domain.contains(u, v)
DomainContains(d, u, v) ==
    RLe(d.u0, u) /\ RLe(u, d.u1) /\ RLe(d.v0, v) /\ RLe(v, d.v1)

(* ---------------------------- ControlPoint ---------------------------- *)

\* mirrorPoint = null
NoLink == [other |-> 0, reference |-> 0]

\* new ControlPoint(owner, x, y, z): no mirror link, no "$ref" yet (-1), the
\* handle attached to the container.
NewControlPoint(pos) ==
    [pos |-> pos, mirrorPoint |-> NoLink, ref |-> -1, attached |-> TRUE]

\* The mirrorPoint that ControlPoint.mirror(other, reference) sets; 0 stands
\* for a null or undefined argument.
MirrorPoint(other, reference) ==
    IF other # 0 /\ reference # 0
    THEN [other |-> other, reference |-> reference]
    ELSE NoLink

\* The index of the last element <<p, ...>> of a sequence of calls on
\* objects, 0 when there is none.
LastCall(calls, p) ==
    LET on == {n \in 1..Len(calls) : calls[n][1] = p}
    IN  IF on = {} THEN 0 ELSE CHOOSE n \in on : \A m \in on : m <= n

\* A sequence of calls p.mirror(other, reference), given as
\* <<p, other, reference>> and run in order: each object keeps the link of
\* the last call on it.
MirrorAll(h, calls) ==
    [p \in 1..Len(h) |->
        LET n == LastCall(calls, p)
        IN  IF n = 0 THEN h[p]
            ELSE [h[p] EXCEPT !.mirrorPoint = MirrorPoint(calls[n][2], calls[n][3])]]

\* A sequence of calls p.copy(pos), given as <<p, pos>> and run in order.
CopyAll(h, copies) ==
    [p \in 1..Len(h) |->
        LET n == LastCall(copies, p)
        IN  IF n = 0 THEN h[p] ELSE [h[p] EXCEPT !.pos = copies[n][2]]]

\* A faulty moveBy that applies the mirror link whatever the flag.
MoveByAlwaysMirrored(h, p, offset, mirror) ==
    LET h1 == [h EXCEPT ![p].pos = VAdd(h[p].pos, offset)]
        mp == h1[p].mirrorPoint
    IN  IF mp # NoLink
        THEN LET off == VSub(h1[mp.reference].pos, h1[p].pos)
             IN  [h1 EXCEPT ![mp.other].pos = VAdd(h1[mp.reference].pos, off)]
        ELSE h1

\* ControlPoint.moveBy(offset, mirror) on the object p of heap h.
MoveBy(h, p, offset, mirror) ==
    LET h1 == [h EXCEPT ![p].pos = VAdd(h[p].pos, offset)]
        mp == h1[p].mirrorPoint
    IN  IF mirror /\ mp # NoLink
        THEN LET off == VSub(h1[mp.reference].pos, h1[p].pos)
                 h2 == [h1 EXCEPT ![mp.other].pos = h1[mp.reference].pos]
             IN  [h2 EXCEPT ![mp.other].pos = VAdd(h2[mp.other].pos, off)]
        ELSE h1

\* The control point objects the cells hold.
PointsOf(cells) == {cells[c].controlPoints[k] : c \in 1..Len(cells), k \in 1..16}

(* ------------------------------- Util --------------------------------- *)

\* The outcome of a call that ends with throw new Error(message + value): a
\* sequence of one record, unlike a number (two entries), a vector (three)
\* and undefined (none).
Thrown(message, value) == <<[error |-> message, value |-> value]>>

\* A faulty derivative whose switch has no default: any other index gives 0.
ComputeBernsetinDerivative3Lenient(i, t) ==
    LET tt == RMul(t, t)
        mt == RSub(One, t)
        mtt == RMul(mt, mt)
    IN  CASE i = 0 -> RNeg(RMul(R(3, 1), mtt))
          [] i = 1 -> RMul(RMul(R(3, 1), RSub(t, One)), RSub(RMul(R(3, 1), t), One))
          [] i = 2 -> RSub(RMul(R(6, 1), t), RMul(R(9, 1), tt))
          [] i = 3 -> RMul(R(3, 1), tt)
          [] OTHER -> Zero

\* Util.computeBernsetinDerivative3(i, t)
ComputeBernsetinDerivative3(i, t) ==
    LET tt == RMul(t, t)
        mt == RSub(One, t)
        mtt == RMul(mt, mt)
    IN  CASE i = 0 -> RNeg(RMul(R(3, 1), mtt))
          [] i = 1 -> RMul(RMul(R(3, 1), RSub(t, One)), RSub(RMul(R(3, 1), t), One))
          [] i = 2 -> RSub(RMul(R(6, 1), t), RMul(R(9, 1), tt))
          [] i = 3 -> RMul(R(3, 1), tt)
          [] OTHER -> Thrown("Invalid index for B3': ", i)

\* A faulty basis with the indices counted from the other end.
ComputeBernsteinBasis3Reversed(i, t) ==
    LET tt == RMul(t, t)
        ttt == RMul(tt, t)
        mt == RSub(One, t)
        mtt == RMul(mt, mt)
        mttt == RMul(mtt, mt)
    IN  CASE i = 3 -> mttt
          [] i = 2 -> RMul(RMul(R(3, 1), t), mtt)
          [] i = 1 -> RMul(RMul(R(3, 1), tt), mt)
          [] i = 0 -> ttt
          [] OTHER -> Thrown("Invalid index for B3: ", i)

\* Util.computeBernsteinBasis3(i, t)
ComputeBernsteinBasis3(i, t) ==
    LET tt == RMul(t, t)
        ttt == RMul(tt, t)
        mt == RSub(One, t)
        mtt == RMul(mt, mt)
        mttt == RMul(mtt, mt)
    IN  CASE i = 0 -> mttt
          [] i = 1 -> RMul(RMul(R(3, 1), t), mtt)
          [] i = 2 -> RMul(RMul(R(3, 1), tt), mt)
          [] i = 3 -> ttt
          [] OTHER -> Thrown("Invalid index for B3: ", i)

\* A faulty deCasteljau: each pair is interpolated from its far end.
DeCasteljauReversed(t, pts) ==
    [i \in 1..(Len(pts) - 1) |-> VLerp(pts[i + 1], pts[i], t)]

\* Util.deCasteljau(t, ...points): one round of the triangle scheme.
DeCasteljau(t, pts) ==
    [i \in 1..(Len(pts) - 1) |-> VLerp(pts[i], pts[i + 1], t)]

\* A faulty loop that pushes onto the end of c1 instead of its front.
RECURSIVE SubdivideLoopAppending(_, _, _, _)
SubdivideLoopAppending(t, pts, c0, c1) ==
    LET next == DeCasteljau(t, pts)
        c0n == Append(c0, next[1])
        c1n == Append(c1, next[Len(next)])
    IN  IF Len(next) = 1 THEN <<c0n, c1n>>
        ELSE SubdivideLoopAppending(t, next, c0n, c1n)

\* The while loop of subdivideCurve: one round of deCasteljau, its first
\* point pushed onto c0 and its last point put in front of c1, until one
\* point is left.
RECURSIVE SubdivideLoop(_, _, _, _)
SubdivideLoop(t, pts, c0, c1) ==
    LET next == DeCasteljau(t, pts)
        c0n == Append(c0, next[1])
        c1n == <<next[Len(next)]>> \o c1
    IN  IF Len(next) = 1 THEN <<c0n, c1n>> ELSE SubdivideLoop(t, next, c0n, c1n)

\* Util.subdivideCurve(t, ...points): <<c0, c1>>, on copies of the points.
SubdivideCurve(t, pts) == SubdivideLoop(t, pts, <<pts[1]>>, <<pts[Len(pts)]>>)

\* Util.subdivideCurve(t, ...points) called with the control points ps of
\* the heap h: the heap afterwards and the two curves.  The call maps its
\* arguments to new vectors first and works on those.
SubdivideCurveRun(h, t, ps) ==
    [points |-> h,
     curves |-> SubdivideCurve(t, [k \in 1..Len(ps) |-> h[ps[k]].pos])]

(* ---------------------------- BezierCurve3 ---------------------------- *)

\* The loop of BezierCurve3.compute from index i on, result accumulating.
RECURSIVE BezierCurve3Sum(_, _, _, _)
BezierCurve3Sum(pts, t, i, result) ==
    IF i >= Len(pts) THEN result
    ELSE BezierCurve3Sum(pts, t, i + 1,
             VAdd(result, VScale(pts[i + 1], ComputeBernsteinBasis3(i, t))))

\* BezierCurve3.compute(t) of a curve with the points pts.
BezierCurve3Compute(pts, t) == BezierCurve3Sum(pts, t, 0, VZero)

\* new BezierCurve3(...pts)
BezierCurve3(pts) ==
    IF Len(pts) # 4 THEN Thrown("4 points are required for a bezier curve", "")
    ELSE [points |-> pts]

(* ---------------------------- BezierPatch3 ---------------------------- *)

\* cell.controlPoints[k], k counted from 0 as in the source.
CP(cell, k) == cell.controlPoints[k + 1]

\* new BezierPatch3(owner, domain, controlPoints), the id being the object.
BezierPatch3(id, domain, cps) == [id |-> id, domain |-> domain, controlPoints |-> cps]

\* The double loop of compute in "bezier" mode: pRes accumulates the terms
\* for k = 4y + x in the order y = 0..3, x = 0..3; bu[x], bv[y] are
\* computeBernsteinBasis3(x, u), computeBernsteinBasis3(y, v).
RECURSIVE BezierSum(_, _, _, _, _, _)
BezierSum(h, cell, bu, bv, k, pRes) ==
    IF k = 16 THEN pRes
    ELSE LET x == k % 4
             y == k \div 4
             b == RMul(bu[x], bv[y])
         IN  BezierSum(h, cell, bu, bv, k + 1,
                       VAdd(pRes, VScale(h[CP(cell, y * 4 + x)].pos, b)))

\* BezierPatch3.compute(u, v, mode): the value it returns, or what it throws.
BezierPatch3Compute(h, cell, gu, gv, mode) ==
    LET d == cell.domain
        u == RDiv(RSub(gu, d.u0), RSub(d.u1, d.u0))
        v == RDiv(RSub(gv, d.v0), RSub(d.v1, d.v0))
    IN  IF mode = "linear"
        THEN LET v0 == VLerp(h[CP(cell, 0)].pos, h[CP(cell, 3)].pos, u)
                 v1 == VLerp(h[CP(cell, 12)].pos, h[CP(cell, 15)].pos, u)
             IN  VLerp(v0, v1, v)
        ELSE IF mode = "bezier"
        THEN BezierSum(h, cell,
                       [x \in 0..3 |-> ComputeBernsteinBasis3(x, u)],
                       [y \in 0..3 |-> ComputeBernsteinBasis3(y, v)], 0, VZero)
        ELSE Thrown("Invalid patch compute mode: ", mode)

(* ------------------------ Patch (the composite) ----------------------- *)

\* Patch.dispose(): the heap afterwards (bezierPatches becomes []).  Every
\* control point of every patch is disposed: its handle leaves the container.
PatchDispose(h, g) ==
    LET gone == PointsOf(g.cells)
    IN  [p \in 1..Len(h) |-> IF p \in gone THEN [h[p] EXCEPT !.attached = FALSE] ELSE h[p]]

\* A faulty first loop that clears the links of the first patch only.
ClearMirrorsFirstPatch(h, cells) ==
    LET held == PointsOf(SubSeq(cells, 1, 1))
    IN  [p \in 1..Len(h) |-> IF p \in held THEN [h[p] EXCEPT !.mirrorPoint = NoLink] ELSE h[p]]

\* The first loop of relinkControlPoints: cp.mirror(null, null) on every
\* control point of every patch.
ClearMirrors(h, cells) ==
    LET held == PointsOf(cells)
    IN  [p \in 1..Len(h) |-> IF p \in held THEN [h[p] EXCEPT !.mirrorPoint = NoLink] ELSE h[p]]

\* A faulty double loop that links the two tangents of an outer bottom-left
\* corner one way only: cp[1] to cp[4] and not back.
RelinkCellOneWay(g, i, j) ==
    LET cur == GridGet(g, i, j)
        left == GridGet(g, i, j - 1)
        right == GridGet(g, i, j + 1)
        bottom == GridGet(g, i - 1, j)
        top == GridGet(g, i + 1, j)
        hasL == left # NullCell
        hasR == right # NullCell
        hasB == bottom # NullCell
        hasT == top # NullCell
    IN     (IF hasL THEN << <<CP(cur, 1), CP(left, 2), CP(cur, 0)>>,
                            <<CP(cur, 13), CP(left, 14), CP(cur, 12)>> >> ELSE <<>>)
        \o (IF hasR THEN << <<CP(cur, 2), CP(right, 1), CP(cur, 3)>>,
                            <<CP(cur, 14), CP(right, 13), CP(cur, 15)>> >> ELSE <<>>)
        \o (IF hasB THEN << <<CP(cur, 4), CP(bottom, 8), CP(cur, 0)>>,
                            <<CP(cur, 7), CP(bottom, 11), CP(cur, 3)>> >> ELSE <<>>)
        \o (IF hasT THEN << <<CP(cur, 8), CP(top, 4), CP(cur, 12)>>,
                            <<CP(cur, 11), CP(top, 7), CP(cur, 15)>> >> ELSE <<>>)
        \o (IF ~hasL /\ ~hasB THEN << <<CP(cur, 1), CP(cur, 4), CP(cur, 0)>> >> ELSE <<>>)
        \o (IF ~hasL /\ ~hasT THEN << <<CP(cur, 8), CP(cur, 13), CP(cur, 12)>>,
                                      <<CP(cur, 13), CP(cur, 8), CP(cur, 12)>> >> ELSE <<>>)
        \o (IF ~hasR /\ ~hasT THEN << <<CP(cur, 14), CP(cur, 11), CP(cur, 15)>>,
                                      <<CP(cur, 11), CP(cur, 14), CP(cur, 15)>> >> ELSE <<>>)
        \o (IF ~hasR /\ ~hasB THEN << <<CP(cur, 2), CP(cur, 7), CP(cur, 3)>>,
                                      <<CP(cur, 7), CP(cur, 2), CP(cur, 3)>> >> ELSE <<>>)

\* The mirror calls of the double loop of relinkControlPoints for the cell
\* (i, j), in order.
RelinkCell(g, i, j) ==
    LET cur == GridGet(g, i, j)
        left == GridGet(g, i, j - 1)
        right == GridGet(g, i, j + 1)
        bottom == GridGet(g, i - 1, j)
        top == GridGet(g, i + 1, j)
        hasL == left # NullCell
        hasR == right # NullCell
        hasB == bottom # NullCell
        hasT == top # NullCell
    IN     (IF hasL THEN << <<CP(cur, 1), CP(left, 2), CP(cur, 0)>>,
                            <<CP(cur, 13), CP(left, 14), CP(cur, 12)>> >> ELSE <<>>)
        \o (IF hasR THEN << <<CP(cur, 2), CP(right, 1), CP(cur, 3)>>,
                            <<CP(cur, 14), CP(right, 13), CP(cur, 15)>> >> ELSE <<>>)
        \o (IF hasB THEN << <<CP(cur, 4), CP(bottom, 8), CP(cur, 0)>>,
                            <<CP(cur, 7), CP(bottom, 11), CP(cur, 3)>> >> ELSE <<>>)
        \o (IF hasT THEN << <<CP(cur, 8), CP(top, 4), CP(cur, 12)>>,
                            <<CP(cur, 11), CP(top, 7), CP(cur, 15)>> >> ELSE <<>>)
        \o (IF ~hasL /\ ~hasB THEN << <<CP(cur, 1), CP(cur, 4), CP(cur, 0)>>,
                                      <<CP(cur, 4), CP(cur, 1), CP(cur, 0)>> >> ELSE <<>>)
        \o (IF ~hasL /\ ~hasT THEN << <<CP(cur, 8), CP(cur, 13), CP(cur, 12)>>,
                                      <<CP(cur, 13), CP(cur, 8), CP(cur, 12)>> >> ELSE <<>>)
        \o (IF ~hasR /\ ~hasT THEN << <<CP(cur, 14), CP(cur, 11), CP(cur, 15)>>,
                                      <<CP(cur, 11), CP(cur, 14), CP(cur, 15)>> >> ELSE <<>>)
        \o (IF ~hasR /\ ~hasB THEN << <<CP(cur, 2), CP(cur, 7), CP(cur, 3)>>,
                                      <<CP(cur, 7), CP(cur, 2), CP(cur, 3)>> >> ELSE <<>>)

\* The mirror calls of the whole double loop, cell n = i * colCount + j on.
RECURSIVE RelinkCalls(_, _)
RelinkCalls(g, n) ==
    IF n >= g.rowCount * g.colCount THEN <<>>
    ELSE RelinkCell(g, n \div g.colCount, n % g.colCount) \o RelinkCalls(g, n + 1)

\* Patch.relinkControlPoints(): the heap afterwards.
RelinkControlPoints(h, g) == MirrorAll(ClearMirrors(h, g.cells), RelinkCalls(g, 0))

\* The order in which initFromCorners creates the 16 control points.
CreationOrder == <<12, 15, 0, 3, 1, 2, 13, 14, 4, 8, 7, 11, 5, 10, 9, 6>>

\* A faulty placement that takes the top corners for the bottom ones:
\* cp[0], cp[3] from topLeft, topRight and cp[12], cp[15] from bottomLeft,
\* bottomRight.
InitialPositionsUpsideDown(topLeft, topRight, bottomLeft, bottomRight) ==
    LET third == R(1, 3)
        twoThirds == R(2, 3)
    IN  [k \in 0..15 |->
            CASE k = 12 -> bottomLeft
              [] k = 15 -> bottomRight
              [] k = 0 -> topLeft
              [] k = 3 -> topRight
              [] k = 1 -> VLerp(topLeft, topRight, third)
              [] k = 2 -> VLerp(topLeft, topRight, twoThirds)
              [] k = 13 -> VLerp(bottomLeft, bottomRight, third)
              [] k = 14 -> VLerp(bottomLeft, bottomRight, twoThirds)
              [] k = 4 -> VLerp(topLeft, bottomLeft, third)
              [] k = 8 -> VLerp(topLeft, bottomLeft, twoThirds)
              [] k = 7 -> VLerp(topRight, bottomRight, third)
              [] k = 11 -> VLerp(topRight, bottomRight, twoThirds)
              [] k = 5 -> VLerp(topLeft, bottomRight, third)
              [] k = 10 -> VLerp(topLeft, bottomRight, twoThirds)
              [] k = 9 -> VLerp(bottomLeft, topRight, third)
              [] k = 6 -> VLerp(bottomLeft, topRight, twoThirds)]

\* The positions initFromCorners gives cp[0..15]: the corners, and the
\* points at 1/3 and 2/3 of the edges and of the diagonals.
InitialPositions(topLeft, topRight, bottomLeft, bottomRight) ==
    LET tl == topLeft
        tr == topRight
        bl == bottomLeft
        br == bottomRight
        third == R(1, 3)
        twoThirds == R(2, 3)
    IN  [k \in 0..15 |->
            CASE k = 12 -> tl
              [] k = 15 -> tr
              [] k = 0 -> bl
              [] k = 3 -> br
              [] k = 1 -> VLerp(bl, br, third)
              [] k = 2 -> VLerp(bl, br, twoThirds)
              [] k = 13 -> VLerp(tl, tr, third)
              [] k = 14 -> VLerp(tl, tr, twoThirds)
              [] k = 4 -> VLerp(bl, tl, third)
              [] k = 8 -> VLerp(bl, tl, twoThirds)
              [] k = 7 -> VLerp(br, tr, third)
              [] k = 11 -> VLerp(br, tr, twoThirds)
              [] k = 5 -> VLerp(bl, tr, third)
              [] k = 10 -> VLerp(bl, tr, twoThirds)
              [] k = 9 -> VLerp(tl, br, third)
              [] k = 6 -> VLerp(tl, br, twoThirds)]

\* Patch.initFromCorners(topLeft, topRight, bottomLeft, bottomRight): the
\* heap and the grid afterwards; id is the new BezierPatch3 object.
InitFromCorners(h, g, id, topLeft, topRight, bottomLeft, bottomRight) ==
    LET pos == InitialPositions(topLeft, topRight, bottomLeft, bottomRight)
        base == Len(h)
        created == h \o [n \in 1..16 |-> NewControlPoint(pos[CreationOrder[n]])]
        cp == [k \in 1..16 |->
                 base + (CHOOSE n \in 1..16 : CreationOrder[n] = k - 1)]
        disposed == PatchDispose(created, g)
        initialBezierPatch == BezierPatch3(id, Domain(Zero, Zero, One, One), cp)
        grid == GridSet(NewGrid(1, 1), 0, 0, initialBezierPatch)
    IN  [points |-> RelinkControlPoints(disposed, grid), grid |-> grid]

\* ControlPoint.fromVector for each position, in order.
FromVectors(h, created) == h \o [n \in 1..Len(created) |-> NewControlPoint(created[n])]

\* x[m][n] of a result x of subdivideCurve, m and n counted from 0.
SC(x, m, n) == x[m + 1][n + 1]

\* The curves a, b, c, d of one pass of the loop of subdivideHorizontal: the
\* four columns of control points of cur, each split at localV.
HorizontalCurves(h, cur, v) ==
    LET d == cur.domain
        P(k) == h[CP(cur, k)].pos
    IN  [n \in 1..4 |->
            SubdivideCurve(RDiv(RSub(v, d.v0), RSub(d.v1, d.v0)),
                           <<P(n - 1), P(n + 3), P(n + 7), P(n + 11)>>)]

\* The rest of one pass of the loop of subdivideHorizontal, for the cell cur
\* of column j and its curves: the heap afterwards and the control points of
\* the bottom and top patch. prevBottom, prevTop are bottomPatches[j - 1],
\* topPatches[j - 1] (j > 0).
HorizontalPatches(h, cur, j, prevBottom, prevTop, curves) ==
    LET a == curves[1]
        b == curves[2]
        c == curves[3]
        dd == curves[4]
        first == (j = 0)
        copies ==
            (IF first THEN << <<CP(cur, 4), SC(a, 0, 1)>>, <<CP(cur, 8), SC(a, 1, 2)>> >>
                      ELSE <<>>)
         \o << <<CP(cur, 7), SC(dd, 0, 1)>>, <<CP(cur, 5), SC(b, 0, 1)>>,
               <<CP(cur, 6), SC(c, 0, 1)>>, <<CP(cur, 11), SC(dd, 1, 2)>>,
               <<CP(cur, 9), SC(b, 1, 2)>>, <<CP(cur, 10), SC(c, 1, 2)>> >>
        created ==
            (IF first THEN <<SC(a, 0, 2), SC(a, 1, 1), SC(a, 1, 0)>> ELSE <<>>)
         \o <<SC(dd, 0, 2), SC(b, 0, 2), SC(c, 0, 2), SC(dd, 1, 1), SC(b, 1, 1),
              SC(c, 1, 1), SC(b, 1, 0), SC(c, 1, 0), SC(dd, 1, 0)>>
        base == Len(h)
        N(m) == base + (IF first THEN 3 ELSE 0) + m
        ptsBottom == [k \in 0..15 |->
            CASE k = 0 -> IF first THEN CP(cur, 0) ELSE prevBottom[3 + 1]
              [] k = 4 -> IF first THEN CP(cur, 4) ELSE prevBottom[7 + 1]
              [] k = 8 -> IF first THEN base + 1 ELSE prevBottom[11 + 1]
              [] k = 12 -> IF first THEN base + 3 ELSE prevBottom[15 + 1]
              [] k = 1 -> CP(cur, 1)
              [] k = 2 -> CP(cur, 2)
              [] k = 3 -> CP(cur, 3)
              [] k = 7 -> CP(cur, 7)
              [] k = 11 -> N(1)
              [] k = 5 -> CP(cur, 5)
              [] k = 6 -> CP(cur, 6)
              [] k = 9 -> N(2)
              [] k = 10 -> N(3)
              [] k = 13 -> N(7)
              [] k = 14 -> N(8)
              [] k = 15 -> N(9)]
        ptsTop == [k \in 0..15 |->
            CASE k = 0 -> IF first THEN base + 3 ELSE prevTop[3 + 1]
              [] k = 4 -> IF first THEN base + 2 ELSE prevTop[7 + 1]
              [] k = 8 -> IF first THEN CP(cur, 8) ELSE prevTop[11 + 1]
              [] k = 12 -> IF first THEN CP(cur, 12) ELSE prevTop[15 + 1]
              [] k = 13 -> CP(cur, 13)
              [] k = 14 -> CP(cur, 14)
              [] k = 15 -> CP(cur, 15)
              [] k = 11 -> CP(cur, 11)
              [] k = 7 -> N(4)
              [] k = 5 -> N(5)
              [] k = 6 -> N(6)
              [] k = 9 -> CP(cur, 9)
              [] k = 10 -> CP(cur, 10)
              [] k = 1 -> N(7)
              [] k = 2 -> N(8)
              [] k = 3 -> N(9)]
    IN  [points |-> FromVectors(CopyAll(h, copies), created),
         bottom |-> [k \in 1..16 |-> ptsBottom[k - 1]],
         top |-> [k \in 1..16 |-> ptsTop[k - 1]]]

\* One pass of the loop of subdivideHorizontal, before the pushes.
HorizontalCell(h, cur, j, prevBottom, prevTop, v) ==
    HorizontalPatches(h, cur, j, prevBottom, prevTop, HorizontalCurves(h, cur, v))

\* The curves a, b, c, d of one pass of the loop of subdivideVertical: the
\* four rows of control points of cur, each split at localU.
VerticalCurves(h, cur, u) ==
    LET d == cur.domain
        P(k) == h[CP(cur, k)].pos
    IN  [n \in 1..4 |->
            SubdivideCurve(RDiv(RSub(u, d.u0), RSub(d.u1, d.u0)),
                           <<P(4 * n - 4), P(4 * n - 3), P(4 * n - 2), P(4 * n - 1)>>)]

\* The rest of one pass of the loop of subdivideVertical, for the cell cur of
\* row i and its curves.
VerticalPatches(h, cur, i, prevLeft, prevRight, curves) ==
    LET a == curves[1]
        b == curves[2]
        c == curves[3]
        dd == curves[4]
        first == (i = 0)
        copies ==
            (IF first THEN << <<CP(cur, 1), SC(a, 0, 1)>>, <<CP(cur, 2), SC(a, 1, 2)>> >>
                      ELSE <<>>)
         \o << <<CP(cur, 13), SC(dd, 0, 1)>>, <<CP(cur, 5), SC(b, 0, 1)>>,
               <<CP(cur, 6), SC(c, 0, 1)>>, <<CP(cur, 14), SC(dd, 1, 2)>>,
               <<CP(cur, 9), SC(b, 1, 2)>>, <<CP(cur, 10), SC(c, 1, 2)>> >>
        created ==
            (IF first THEN <<SC(a, 0, 2), SC(a, 1, 1), SC(a, 1, 0)>> ELSE <<>>)
         \o <<SC(dd, 0, 2), SC(b, 0, 2), SC(c, 0, 2), SC(dd, 1, 1), SC(b, 1, 1),
              SC(c, 1, 1), SC(b, 1, 0), SC(c, 1, 0), SC(dd, 1, 0)>>
        base == Len(h)
        N(m) == base + (IF first THEN 3 ELSE 0) + m
        ptsLeft == [k \in 0..15 |->
            CASE k = 0 -> IF first THEN CP(cur, 0) ELSE prevLeft[12 + 1]
              [] k = 1 -> IF first THEN CP(cur, 1) ELSE prevLeft[13 + 1]
              [] k = 2 -> IF first THEN base + 1 ELSE prevLeft[14 + 1]
              [] k = 3 -> IF first THEN base + 3 ELSE prevLeft[15 + 1]
              [] k = 4 -> CP(cur, 4)
              [] k = 8 -> CP(cur, 8)
              [] k = 12 -> CP(cur, 12)
              [] k = 13 -> CP(cur, 13)
              [] k = 14 -> N(1)
              [] k = 5 -> CP(cur, 5)
              [] k = 9 -> CP(cur, 6)
              [] k = 6 -> N(2)
              [] k = 10 -> N(3)
              [] k = 7 -> N(7)
              [] k = 11 -> N(8)
              [] k = 15 -> N(9)]
        ptsRight == [k \in 0..15 |->
            CASE k = 0 -> IF first THEN base + 3 ELSE prevRight[12 + 1]
              [] k = 1 -> IF first THEN base + 2 ELSE prevRight[13 + 1]
              [] k = 2 -> IF first THEN CP(cur, 2) ELSE prevRight[14 + 1]
              [] k = 3 -> IF first THEN CP(cur, 3) ELSE prevRight[15 + 1]
              [] k = 7 -> CP(cur, 7)
              [] k = 11 -> CP(cur, 11)
              [] k = 15 -> CP(cur, 15)
              [] k = 14 -> CP(cur, 14)
              [] k = 13 -> N(4)
              [] k = 5 -> N(5)
              [] k = 9 -> N(6)
              [] k = 6 -> CP(cur, 9)
              [] k = 10 -> CP(cur, 10)
              [] k = 4 -> N(7)
              [] k = 8 -> N(8)
              [] k = 12 -> N(9)]
    IN  [points |-> FromVectors(CopyAll(h, copies), created),
         left |-> [k \in 1..16 |-> ptsLeft[k - 1]],
         right |-> [k \in 1..16 |-> ptsRight[k - 1]]]

\* One pass of the loop of subdivideVertical, before the pushes.
VerticalCell(h, cur, i, prevLeft, prevRight, u) ==
    VerticalPatches(h, cur, i, prevLeft, prevRight, VerticalCurves(h, cur, u))

\* Faulty pushes: the bottom patch is given the Domain (u0, v0, u1, v0).
HorizontalPushFlat(acc, r, dom, j, v, id) ==
    [points |-> r.points,
     bottomPatches |-> Append(acc.bottomPatches,
         BezierPatch3(id + 2 * j + 1, Domain(dom.u0, dom.v0, dom.u1, dom.v0), r.bottom)),
     topPatches |-> Append(acc.topPatches,
         BezierPatch3(id + 2 * j + 2, Domain(dom.u0, v, dom.u1, dom.v1), r.top))]

\* The pushes that end one pass of the loop of subdivideHorizontal: the bottom
\* and the top patch of column j, made of the result r of the pass.
HorizontalPush(acc, r, dom, j, v, id) ==
    [points |-> r.points,
     bottomPatches |-> Append(acc.bottomPatches,
         BezierPatch3(id + 2 * j + 1, Domain(dom.u0, dom.v0, dom.u1, v), r.bottom)),
     topPatches |-> Append(acc.topPatches,
         BezierPatch3(id + 2 * j + 2, Domain(dom.u0, v, dom.u1, dom.v1), r.top))]

\* The loop of subdivideHorizontal over the cells row[j], j = 0..colCount-1:
\* acc holds the heap and the bottomPatches and topPatches built so far; the
\* patches of column j are the objects id + 2j + 1 and id + 2j + 2.
RECURSIVE HorizontalLoop(_, _, _, _, _)
HorizontalLoop(acc, row, j, v, id) ==
    IF j >= Len(row) THEN acc
    ELSE HorizontalLoop(
             HorizontalPush(acc,
                 HorizontalCell(acc.points, row[j + 1], j,
                     IF j > 0 THEN acc.bottomPatches[j].controlPoints ELSE <<>>,
                     IF j > 0 THEN acc.topPatches[j].controlPoints ELSE <<>>, v),
                 row[j + 1].domain, j, v, id),
             row, j + 1, v, id)

\* A faulty filling of the two new rows: top patches below bottom patches.
RECURSIVE SetRowsSwapped(_, _, _, _, _)
SetRowsSwapped(g, rowIndex, bottomPatches, topPatches, j) ==
    IF j >= g.colCount THEN g
    ELSE SetRowsSwapped(GridSet(GridSet(g, rowIndex + 1, j, topPatches[j + 1]),
                                rowIndex + 2, j, bottomPatches[j + 1]),
                        rowIndex, bottomPatches, topPatches, j + 1)

\* The loop of subdivideHorizontal that stores bottomPatches[j], topPatches[j]
\* in the rows rowIndex + 1, rowIndex + 2.
RECURSIVE SetRows(_, _, _, _, _)
SetRows(g, rowIndex, bottomPatches, topPatches, j) ==
    IF j >= g.colCount THEN g
    ELSE SetRows(GridSet(GridSet(g, rowIndex + 1, j, bottomPatches[j + 1]),
                         rowIndex + 2, j, topPatches[j + 1]),
                 rowIndex, bottomPatches, topPatches, j + 1)

\* The row index subdivideHorizontal(v) finds, or -1.
RowIndexOf(g, v) ==
    FindIndex({i \in 0..(g.rowCount - 1) :
        LET r == Rows(g)[i + 1] IN RLe(r[1].domain.v0, v) /\ RLe(v, r[1].domain.v1)})

\* The end of a subdivision: relinkControlPoints() on the new grid.
Relinked(h, grid) == [points |-> RelinkControlPoints(h, grid), grid |-> grid]

\* The end of subdivideHorizontal: the two rows inserted after rowIndex and
\* filled with the patches built, the row rowIndex deleted, the relink.
HorizontalStore(g, rowIndex, built) ==
    Relinked(built.points,
             DeleteRow(SetRows(InserRow(InserRow(g, rowIndex + 1), rowIndex + 2),
                               rowIndex, built.bottomPatches, built.topPatches, 0),
                       rowIndex))

\* subdivideHorizontal(v) once rowIndex is found: the loop over the row, then
\* the storing.
HorizontalAt(h, g, id, v, rowIndex) ==
    HorizontalStore(g, rowIndex,
        HorizontalLoop([points |-> h, bottomPatches |-> <<>>, topPatches |-> <<>>],
                       Rows(g)[rowIndex + 1], 0, v, id))

\* Patch.subdivideHorizontal(v) when a row contains v: the heap and the grid
\* afterwards; id is the number of BezierPatch3 objects created before.
SubdivideHorizontal(h, g, id, v) ==
    HorizontalAt(h, g, id, v, RowIndexOf(g, v))

\* Faulty pushes: the right patch keeps the whole Domain of the cell cut.
VerticalPushWhole(acc, r, dom, i, u, id) ==
    [points |-> r.points,
     leftPatches |-> Append(acc.leftPatches,
         BezierPatch3(id + 2 * i + 1, Domain(dom.u0, dom.v0, u, dom.v1), r.left)),
     rightPatches |-> Append(acc.rightPatches,
         BezierPatch3(id + 2 * i + 2, Domain(dom.u0, dom.v0, dom.u1, dom.v1), r.right))]

\* The pushes that end one pass of the loop of subdivideVertical: the left
\* and the right patch of row i, made of the result r of the pass.
VerticalPush(acc, r, dom, i, u, id) ==
    [points |-> r.points,
     leftPatches |-> Append(acc.leftPatches,
         BezierPatch3(id + 2 * i + 1, Domain(dom.u0, dom.v0, u, dom.v1), r.left)),
     rightPatches |-> Append(acc.rightPatches,
         BezierPatch3(id + 2 * i + 2, Domain(u, dom.v0, dom.u1, dom.v1), r.right))]

\* The loop of subdivideVertical over the cells col[i], i = 0..rowCount-1.
RECURSIVE VerticalLoop(_, _, _, _, _)
VerticalLoop(acc, col, i, u, id) ==
    IF i >= Len(col) THEN acc
    ELSE VerticalLoop(
             VerticalPush(acc,
                 VerticalCell(acc.points, col[i + 1], i,
                     IF i > 0 THEN acc.leftPatches[i].controlPoints ELSE <<>>,
                     IF i > 0 THEN acc.rightPatches[i].controlPoints ELSE <<>>, u),
                 col[i + 1].domain, i, u, id),
             col, i + 1, u, id)

RECURSIVE SetColumns(_, _, _, _, _)
SetColumns(g, colIndex, leftPatches, rightPatches, i) ==
    IF i >= g.rowCount THEN g
    ELSE SetColumns(GridSet(GridSet(g, i, colIndex + 1, leftPatches[i + 1]),
                            i, colIndex + 2, rightPatches[i + 1]),
                    colIndex, leftPatches, rightPatches, i + 1)

\* The column index subdivideVertical(u) finds, or -1.
ColIndexOf(g, u) ==
    FindIndex({j \in 0..(g.colCount - 1) :
        LET r == Columns(g)[j + 1] IN RLe(r[1].domain.u0, u) /\ RLe(u, r[1].domain.u1)})

\* The end of subdivideVertical: the two columns inserted after colIndex and
\* filled with the patches built, the column colIndex deleted, the relink.
VerticalStore(g, colIndex, built) ==
    Relinked(built.points,
             DeleteColumn(SetColumns(InsertColumn(InsertColumn(g, colIndex + 1),
                                                  colIndex + 2),
                                     colIndex, built.leftPatches, built.rightPatches, 0),
                          colIndex))

\* subdivideVertical(u) once colIndex is found: the loop over the column, then
\* the storing.
VerticalAt(h, g, id, u, colIndex) ==
    VerticalStore(g, colIndex,
        VerticalLoop([points |-> h, leftPatches |-> <<>>, rightPatches |-> <<>>],
                     Columns(g)[colIndex + 1], 0, u, id))

\* Patch.subdivideVertical(u) when a column contains u.
SubdivideVertical(h, g, id, u) ==
    VerticalAt(h, g, id, u, ColIndexOf(g, u))

\* The index (from 1) of the first cell whose Domain contains (u, v), the
\* iteration at which Patch.compute returns; 0 when the loop ends without.
RECURSIVE ComputeScan(_, _, _, _)
ComputeScan(g, u, v, n) ==
    IF n > Len(g.cells) THEN 0
    ELSE IF DomainContains(g.cells[n].domain, u, v) THEN n
    ELSE ComputeScan(g, u, v, n + 1)

\* The result of a call that returns nothing (undefined).
Undefined == <<>>

\* A faulty compute that answers the zero vector when no cell contains (u, v).
PatchComputeDefaulted(h, g, u, v, mode) ==
    LET n == ComputeScan(g, u, v, 1)
    IN  IF n = 0 THEN VZero ELSE BezierPatch3Compute(h, g.cells[n], u, v, mode)

\* Patch.compute(u, v, mode)
PatchCompute(h, g, u, v, mode) ==
    LET n == ComputeScan(g, u, v, 1)
    IN  IF n = 0 THEN Undefined ELSE BezierPatch3Compute(h, g.cells[n], u, v, mode)

(* ------------------- compute, statement by statement ------------------ *)

\* What a call of compute can reach: the control points, the grid with its
\* patches and Domains, and the scratch vectors buffers.vec3[0], [1]
\* (vec3[1], vec3[2] here).
Memory(h, g, vec3) == [points |-> h, bezierPatches |-> g, vec3 |-> vec3]

\* buffers.vec3[b] receives the value val (copy, set, lerp, add on it).
SetBuffer(m, b, val) == [m EXCEPT !.vec3[b] = val]

\* The position of this.controlPoints[k] as the memory m holds it.
Pos(m, cell, k) == m.points[CP(cell, k)].pos

\* A faulty linear branch that interpolates on controlPoints[0] and [12]
\* themselves instead of copies in the scratch vectors.
ComputeLinearInPlace(m, cell, u, v) ==
    LET m1 == [m EXCEPT !.points[CP(cell, 0)].pos = VLerp(@, Pos(m, cell, 3), u)]
        m2 == [m1 EXCEPT !.points[CP(cell, 12)].pos = VLerp(@, Pos(m1, cell, 15), u)]
        m3 == [m2 EXCEPT !.points[CP(cell, 0)].pos = VLerp(@, Pos(m2, cell, 12), v)]
    IN  [memory |-> m3, result |-> Pos(m3, cell, 0)]

\* The "linear" branch of BezierPatch3.compute, u and v already local.
ComputeLinear(m, cell, u, v) ==
    LET m1 == SetBuffer(m, 1, Pos(m, cell, 0))
        m2 == SetBuffer(m1, 2, Pos(m1, cell, 12))
        m3 == SetBuffer(m2, 1, VLerp(m2.vec3[1], Pos(m2, cell, 3), u))
        m4 == SetBuffer(m3, 2, VLerp(m3.vec3[2], Pos(m3, cell, 15), u))
        m5 == SetBuffer(m4, 1, VLerp(m4.vec3[1], m4.vec3[2], v))
    IN  [memory |-> m5, result |-> m5.vec3[1]]

\* The double loop of the "bezier" branch from k = 4y + x on: p0 (vec3[2])
\* takes controlPoints[k] scaled by b, pRes (vec3[1]) adds it.
RECURSIVE ComputeBezierLoop(_, _, _, _, _)
ComputeBezierLoop(m, cell, u, v, k) ==
    IF k = 16 THEN m
    ELSE LET b == RMul(ComputeBernsteinBasis3(k % 4, u),
                       ComputeBernsteinBasis3(k \div 4, v))
             m1 == SetBuffer(m, 2, VScale(Pos(m, cell, k), b))
             m2 == SetBuffer(m1, 1, VAdd(m1.vec3[1], m1.vec3[2]))
         IN  ComputeBezierLoop(m2, cell, u, v, k + 1)

\* The "bezier" branch of BezierPatch3.compute.
ComputeBezier(m, cell, u, v) ==
    LET m1 == ComputeBezierLoop(SetBuffer(m, 1, VZero), cell, u, v, 0)
    IN  [memory |-> m1, result |-> m1.vec3[1]]

\* BezierPatch3.compute(u, v, mode) as a run on the memory m: the memory
\* afterwards and the vector returned (the value of buffers.vec3[0]), or
\* what is thrown.
BezierPatch3ComputeRun(m, cell, gu, gv, mode) ==
    LET d == cell.domain
        u == RDiv(RSub(gu, d.u0), RSub(d.u1, d.u0))
        v == RDiv(RSub(gv, d.v0), RSub(d.v1, d.v0))
    IN  IF mode = "linear" THEN ComputeLinear(m, cell, u, v)
        ELSE IF mode = "bezier" THEN ComputeBezier(m, cell, u, v)
        ELSE [memory |-> m, result |-> Thrown("Invalid patch compute mode: ", mode)]

\* Patch.compute(u, v, mode) as a run on the memory m.
PatchComputeRun(m, u, v, mode) ==
    LET n == ComputeScan(m.bezierPatches, u, v, 1)
    IN  IF n = 0 THEN [memory |-> m, result |-> Undefined]
        ELSE BezierPatch3ComputeRun(m, m.bezierPatches.cells[n], u, v, mode)

(* --------------------------- save / restore --------------------------- *)

\* A faulty step 1 whose counter starts again at 0 for every patch.
SetRefsPerPatch(h, cells) ==
    LET slots == [n \in 1..(16 * Len(cells)) |->
                    <<CP(cells[(n - 1) \div 16 + 1], (n - 1) % 16), (n - 1) % 16>>]
    IN  [p \in 1..Len(h) |->
            LET n == LastCall(slots, p)
            IN  IF n = 0 THEN h[p] ELSE [h[p] EXCEPT !.ref = slots[n][2]]]

\* Step 1 of save(): point["$ref"] = refCount++ over the cells in order and
\* the 16 points of each: a point keeps the count of the last slot holding it.
SetRefs(h, cells) ==
    LET slots == [n \in 1..(16 * Len(cells)) |->
                    <<CP(cells[(n - 1) \div 16 + 1], (n - 1) % 16), n - 1>>]
    IN  [p \in 1..Len(h) |->
            LET n == LastCall(slots, p)
            IN  IF n = 0 THEN h[p] ELSE [h[p] EXCEPT !.ref = slots[n][2]]]

\* JSON.parse(JSON.stringify(x)) of a number: a non-finite number is written
\* as null, which the arithmetic that reads it back treats as 0.
JsonNumber(x) == IF IsNaN(x) THEN Zero ELSE x

\* serialize(patch.domain)
SerializeDomain(d) ==
    [u0 |-> JsonNumber(d.u0), u1 |-> JsonNumber(d.u1),
     v0 |-> JsonNumber(d.v0), v1 |-> JsonNumber(d.v1)]

\* Patch.save(): the heap afterwards (the "$ref" fields are set) and the
\* object returned.  A mirrorPoint of null is the empty tuple.
Save(h, g) ==
    LET h1 == SetRefs(h, g.cells)
        slot(n) == CP(g.cells[(n - 1) \div 16 + 1], (n - 1) % 16)
        record(p) ==
            [x |-> h1[p].pos[1], y |-> h1[p].pos[2], z |-> h1[p].pos[3],
             mirrorPoint |->
                IF h1[p].mirrorPoint # NoLink
                THEN <<h1[h1[p].mirrorPoint.other].ref, h1[h1[p].mirrorPoint.reference].ref>>
                ELSE <<>>]
    IN  [points |-> h1,
         data |-> [rows |-> g.rowCount,
                   cols |-> g.colCount,
                   patches |-> [c \in 1..Len(g.cells) |->
                       [controlPoints |-> [k \in 1..16 |-> h1[CP(g.cells[c], k - 1)].ref],
                        domain |-> SerializeDomain(g.cells[c].domain)]],
                   controlPoints |-> [n \in 1..(16 * Len(g.cells)) |-> record(slot(n))]]]

\* The loop of restore() that applies the mirror links; the record with
\* reference id r is the object base + r + 1, an absent id is no object.
RestoreLinks(h, data, base) ==
    LET obj(r) == IF r >= 0 /\ r < Len(data.controlPoints) THEN base + r + 1 ELSE 0
    IN  [p \in 1..Len(h) |->
            IF p > base /\ data.controlPoints[p - base].mirrorPoint # <<>>
            THEN [h[p] EXCEPT !.mirrorPoint =
                    MirrorPoint(obj(data.controlPoints[p - base].mirrorPoint[1]),
                                obj(data.controlPoints[p - base].mirrorPoint[2]))]
            ELSE h[p]]

RECURSIVE RestorePatches(_, _, _, _, _)
RestorePatches(g, data, base, id, i) ==
    IF i >= Len(data.patches) THEN g
    ELSE LET patchData == data.patches[i + 1]
             cps == [k \in 1..16 |-> base + patchData.controlPoints[k] + 1]
             row == i \div data.cols
             col == i % data.cols
             dom == patchData.domain
         IN  RestorePatches(
                 GridSet(g, row, col,
                         BezierPatch3(id + i + 1, Domain(dom.u0, dom.v0, dom.u1, dom.v1), cps)),
                 data, base, id, i + 1)

\* Patch.restore(savedInstance): the heap and the grid afterwards.
Restore(h, g, id, data) ==
    LET disposed == PatchDispose(h, g)
        base == Len(disposed)
        controlPoints == disposed \o [n \in 1..Len(data.controlPoints) |->
            NewControlPoint(Vec(data.controlPoints[n].x, data.controlPoints[n].y,
                                data.controlPoints[n].z))]
        linked == RestoreLinks(controlPoints, data, base)
    IN  [points |-> linked,
         grid |-> RestorePatches(NewGrid(data.rows, data.cols), data, base, id, 0)]

(* ------------------------------ History ------------------------------ *)

\* new History()
NewHistory == [index |-> -1, data |-> <<>>]

\* History.current()
HistoryCurrent(hist) == hist.data[hist.index + 1]

\* A faulty insert that deletes nothing after the new element.
HistoryInsertKeeping(hist, e) ==
    [index |-> hist.index + 1,
     data |-> Splice(hist.data, hist.index + 1, 0, <<e>>)]

\* A faulty insert that counts the elements to delete one short.
HistoryInsertOneShort(hist, e) ==
    [index |-> hist.index + 1,
     data |-> Splice(hist.data, hist.index + 1,
                     Max(0, Len(hist.data) - (hist.index + 1) - 1), <<e>>)]

\* History.insert(e)
HistoryInsert(hist, e) ==
    [index |-> hist.index + 1,
     data |-> Splice(hist.data, hist.index + 1,
                     Max(0, Len(hist.data) - (hist.index + 1)), <<e>>)]

\* History.back()
HistoryBack(hist) == [hist EXCEPT !.index = Max(0, hist.index - 1)]

\* History.forward()
HistoryForward(hist) == [hist EXCEPT !.index = Min(Len(hist.data) - 1, hist.index + 1)]

(* ---------------------------- the program ----------------------------- *)

\* No save() result is held yet.
NoSave == [rows |-> 0, cols |-> 0, patches |-> <<>>, controlPoints |-> <<>>]

\* The record of the operation that ran last: op its name, cut the parameter
\* of a subdivision, sel / offset the selection and offset of a drag,
\* rightButtonDown the mouse state during it, mirror the flag it passed to
\* moveBy, threw whether the operation ended with an exception, args the
\* integer arguments of a Grid operation, mode and previewMode the options
\* an update ran with.
Op(name) ==
    [op |-> name, cut |-> Zero, sel |-> <<>>, offset |-> VZero,
     rightButtonDown |-> FALSE, mirror |-> FALSE, threw |-> FALSE,
     args |-> <<>>, mode |-> "bezier", previewMode |-> FALSE]

\* The corners reset(patchWidth, patchHeight, backgroundWidth,
\* backgroundHeight) computes: the patch rectangle centred in the background.
ResetCorners(patchWidth, patchHeight, backgroundWidth, backgroundHeight) ==
    LET x0 == RDiv(RSub(backgroundWidth, patchWidth), R(2, 1))
        y0 == RDiv(RSub(backgroundHeight, patchHeight), R(2, 1))
    IN  [bl |-> Vec(x0, y0, Zero),
         br |-> Vec(RAdd(x0, patchWidth), y0, Zero),
         tl |-> Vec(x0, RAdd(y0, patchHeight), Zero),
         tr |-> Vec(RAdd(x0, patchWidth), RAdd(y0, patchHeight), Zero)]

\* Corners handed to initFromCorners by reset: a 6 x 3 patch on an 8 x 5
\* background.
CornerChoices == {ResetCorners(R(6, 1), R(3, 1), R(8, 1), R(5, 1))}

\* Cut parameters the cut tools pass (uv.x, uv.y of the mesh intersection).
CutParams == {R(1, 4), R(1, 2), R(3, 4)}

\* Offsets of one mousemove.
Offsets == {Vec(R(1, 1), R(2, 1), Zero)}

Initialised == bezierPatches.rowCount > 0

\* Selections a drag acts on (selectedControlPoints): one handle of the first
\* cell, or its two inner points on the diagonal.
DragSelections ==
    IF ~Initialised THEN {}
    ELSE LET c == bezierPatches.cells[1]
         IN  {<<CP(c, 2)>>, <<CP(c, 5), CP(c, 10)>>}

(* ------------------------------ Textures ------------------------------ *)

\* The state of the textures after initialize(): options.texture, the keys
\* of Textures.texturesMap, the urls handed to THREE.TextureLoader.load, the
\* loads of the plane texture configure has asked for, and the map of the
\* material of meshes.plane. An url is a string; "null" stands for null.
NewTextures ==
    [texture |-> "null", texturesMap |-> {}, loaderCalls |-> <<>>,
     requests |-> <<>>, map |-> "null"]

\* !url
Falsy(url) == url \in {"null", ""}

\* Textures.load(url): the executor of the promise. resolve(null) for a
\* falsy url does not return, and only the first resolve of a promise
\* counts; an url not in texturesMap is handed to the loader and its
\* texture stored at once. The outcome is "null" (resolved with null),
\* "cached" (resolved with the texture of url) or "loading" (settled by
\* the loader later).
TexturesLoad(t, url) ==
    [textures |->
        IF url \in t.texturesMap THEN t
        ELSE [t EXCEPT !.texturesMap = @ \cup {url}, !.loaderCalls = Append(@, url)],
     outcome |->
        IF Falsy(url) THEN "null"
        ELSE IF url \in t.texturesMap THEN "cached"
        ELSE "loading"]

\* The requests still loading.
Loading(t) == {n \in 1..Len(t.requests) : t.requests[n].state = "loading"}

\* The part of configure(options) that concerns the textures, options.texture
\* given as url: the load of options.background (never set, null), a new
\* plane mesh whose material has no map, and the load of options.texture;
\* the callback of a promise resolved in load runs before any other event
\* and sets the map of meshes.plane.
ConfigurePlane(t, url, ld) ==
    [ld.textures EXCEPT
        !.texture = url,
        !.requests = Append(@, [url |-> url, state |-> ld.outcome, during |-> Loading(t)]),
        !.map = IF ld.outcome = "cached" THEN url ELSE "null"]

Configure(t, url) ==
    ConfigurePlane(t, url, TexturesLoad(TexturesLoad(t, "null").textures, url))

\* The loader calls onLoad for the request n: resolve(tex), and the callback
\* configure attached sets the map of the plane mesh of the moment.
TextureLoaded(t, n) ==
    [t EXCEPT !.requests[n].state = "loaded", !.map = t.requests[n].url]

\* The loader calls onError for the request n: reject(err).
TextureFailed(t, n) == [t EXCEPT !.requests[n].state = "failed"]

Init ==
    /\ points = <<>>
    /\ bezierPatches = NoGrid
    /\ patchCount = 0
    /\ saved = NoSave
    /\ history = NewHistory
    /\ moves = 0
    /\ last = Op("new")
    /\ selectedControlPoints = <<>>
    /\ textures = NewTextures

\* Patch.initFromCorners(tl, tr, bl, br), as reset calls it.
DoInitFromCorners ==
    \E c \in CornerChoices :
        /\ Len(points) + 16 <= MaxPoints
        /\ \E r \in {InitFromCorners(points, bezierPatches, patchCount + 1,
                                       c.tl, c.tr, c.bl, c.br)} :
               /\ points' = r.points
               /\ bezierPatches' = r.grid
        /\ patchCount' = patchCount + 1
        /\ last' = Op("initFromCorners")
        /\ UNCHANGED <<saved, moves, history,
                       selectedControlPoints, textures>>

\* Patch.subdivideHorizontal(v), as the click handler calls it with the
\* horizontal cut tool, v = uv.y.
DoSubdivideHorizontal ==
    \E v \in CutParams :
        /\ Initialised
        /\ Len(points) + 3 + 9 * bezierPatches.colCount <= MaxPoints
        /\ IF RowIndexOf(bezierPatches, v) = -1
           THEN /\ last' = [Op("subdivideHorizontal") EXCEPT !.cut = v, !.threw = TRUE]
                /\ UNCHANGED <<points, bezierPatches, patchCount>>
           ELSE /\ \E r \in {SubdivideHorizontal(points, bezierPatches, patchCount, v)} :
                       /\ points' = r.points
                       /\ bezierPatches' = r.grid
                /\ patchCount' = patchCount + 2 * bezierPatches.colCount
                /\ last' = [Op("subdivideHorizontal") EXCEPT !.cut = v]
        /\ UNCHANGED <<saved, moves, history,
                       selectedControlPoints, textures>>

\* Patch.subdivideVertical(u), as the click handler calls it with the
\* vertical cut tool, u = uv.x.
DoSubdivideVertical ==
    \E u \in CutParams :
        /\ Initialised
        /\ Len(points) + 3 + 9 * bezierPatches.rowCount <= MaxPoints
        /\ IF ColIndexOf(bezierPatches, u) = -1
           THEN /\ last' = [Op("subdivideVertical") EXCEPT !.cut = u, !.threw = TRUE]
                /\ UNCHANGED <<points, bezierPatches, patchCount>>
           ELSE /\ \E r \in {SubdivideVertical(points, bezierPatches, patchCount, u)} :
                       /\ points' = r.points
                       /\ bezierPatches' = r.grid
                /\ patchCount' = patchCount + 2 * bezierPatches.rowCount
                /\ last' = [Op("subdivideVertical") EXCEPT !.cut = u]
        /\ UNCHANGED <<saved, moves, history,
                       selectedControlPoints, textures>>

\* selectedControlPoints.forEach(c => c.moveBy(offset, mirror))
RECURSIVE MoveAll(_, _, _, _, _)
MoveAll(h, sel, offset, mirror, n) ==
    IF n > Len(sel) THEN h
    ELSE MoveAll(MoveBy(h, sel[n], offset, mirror), sel, offset, mirror, n + 1)

\* The mirror flag mousemove passes to moveBy.
DragMirror(rightButtonDown, sel) == rightButtonDown /\ Len(sel) = 1

\* mousemove while dragging control points with the arrow tool.
DoMouseMove ==
    \E sel \in DragSelections, rightButtonDown \in BOOLEAN, offset \in Offsets :
        /\ Initialised
        /\ moves < MaxMoves
        /\ points' = MoveAll(points, sel, offset, DragMirror(rightButtonDown, sel), 1)
        /\ moves' = moves + 1
        /\ last' = [Op("mousemove") EXCEPT !.sel = sel, !.offset = offset,
                                           !.rightButtonDown = rightButtonDown,
                                           !.mirror = DragMirror(rightButtonDown, sel)]
        /\ selectedControlPoints' = sel
        /\ UNCHANGED <<bezierPatches, patchCount, saved, history, textures>>

\* saved = Patch.save(), as mousedown and saveHistory call it.
DoSave ==
    /\ Initialised
    /\ \E r \in {Save(points, bezierPatches)} :
           /\ points' = r.points
           /\ saved' = r.data
    /\ last' = Op("save")
    /\ UNCHANGED <<bezierPatches, patchCount, moves, history,
                   selectedControlPoints, textures>>

\* Patch.restore(saved), as restoreHistory calls it.
DoRestore ==
    /\ saved # NoSave
    /\ Len(points) + Len(saved.controlPoints) <= MaxPoints
    /\ \E r \in {Restore(points, bezierPatches, patchCount, saved)} :
           /\ points' = r.points
           /\ bezierPatches' = r.grid
    /\ patchCount' = patchCount + Len(saved.patches)
    /\ last' = Op("restore")
    /\ UNCHANGED <<saved, moves, history,
                   selectedControlPoints, textures>>

Next ==
    \/ DoInitFromCorners
    \/ DoSubdivideHorizontal
    \/ DoSubdivideVertical
    \/ DoMouseMove
    \/ DoSave
    \/ DoRestore

Spec == Init /\ [][Next]_vars

\* An editing session: reset, cuts and drags, without save and restore.
NextEdit ==
    \/ DoInitFromCorners
    \/ DoSubdivideHorizontal
    \/ DoSubdivideVertical
    \/ DoMouseMove

SpecEdit == Init /\ [][NextEdit]_vars

\* Cut parameters of a direct call of the API: inside [0,1], below 0 and
\* above 1.
AnyCutParams == CutParams \cup {R(-1, 2), R(3, 2)}

\* Patch.subdivideHorizontal(v) for any number v: with no row whose span
\* contains v, rowIndex is -1, row is undefined and row[0] throws a TypeError
\* in the first pass of the loop.
DoSubdivideHorizontalAnywhere ==
    \E v \in AnyCutParams :
        /\ Initialised
        /\ Len(points) + 3 + 9 * bezierPatches.colCount <= MaxPoints
        /\ IF RowIndexOf(bezierPatches, v) = -1
           THEN /\ last' = [Op("subdivideHorizontal") EXCEPT !.cut = v, !.threw = TRUE]
                /\ UNCHANGED <<points, bezierPatches, patchCount>>
           ELSE /\ \E r \in {SubdivideHorizontal(points, bezierPatches, patchCount, v)} :
                       /\ points' = r.points
                       /\ bezierPatches' = r.grid
                /\ patchCount' = patchCount + 2 * bezierPatches.colCount
                /\ last' = [Op("subdivideHorizontal") EXCEPT !.cut = v]
        /\ UNCHANGED <<saved, moves, history,
                       selectedControlPoints, textures>>

\* Patch.subdivideVertical(u) for any number u.
DoSubdivideVerticalAnywhere ==
    \E u \in AnyCutParams :
        /\ Initialised
        /\ Len(points) + 3 + 9 * bezierPatches.rowCount <= MaxPoints
        /\ IF ColIndexOf(bezierPatches, u) = -1
           THEN /\ last' = [Op("subdivideVertical") EXCEPT !.cut = u, !.threw = TRUE]
                /\ UNCHANGED <<points, bezierPatches, patchCount>>
           ELSE /\ \E r \in {SubdivideVertical(points, bezierPatches, patchCount, u)} :
                       /\ points' = r.points
                       /\ bezierPatches' = r.grid
                /\ patchCount' = patchCount + 2 * bezierPatches.rowCount
                /\ last' = [Op("subdivideVertical") EXCEPT !.cut = u]
        /\ UNCHANGED <<saved, moves, history,
                       selectedControlPoints, textures>>

\* A session of resets, drags and cuts at any parameter.
NextAnywhere ==
    \/ DoInitFromCorners
    \/ DoSubdivideHorizontalAnywhere
    \/ DoSubdivideVerticalAnywhere
    \/ DoMouseMove

SpecAnywhere == Init /\ [][NextAnywhere]_vars

(* ------------------------------ update ------------------------------- *)

\* The twelve statements cp[k].copy(cp[a]).lerp(cp[b], t) of update in
\* "linear" mode, in their order: <<k, a, b, t>>.
LinearSteps ==
    << <<1, 0, 3, R(1, 3)>>,    <<2, 0, 3, R(2, 3)>>,
       <<4, 0, 12, R(1, 3)>>,   <<8, 0, 12, R(2, 3)>>,
       <<13, 12, 15, R(1, 3)>>, <<14, 12, 15, R(2, 3)>>,
       <<7, 3, 15, R(1, 3)>>,   <<11, 3, 15, R(2, 3)>>,
       <<5, 4, 7, R(1, 3)>>,    <<6, 4, 7, R(2, 3)>>,
       <<9, 8, 11, R(1, 3)>>,   <<10, 8, 11, R(2, 3)>> >>

\* p.copy(a): p takes the position of a.
CopyFrom(h, p, a) == [h EXCEPT ![p].pos = h[a].pos]

\* p.lerp(b, t): p moves towards b by the fraction t.
LerpTo(h, p, b, t) == [h EXCEPT ![p].pos = VLerp(h[p].pos, h[b].pos, t)]

\* A faulty statement that interpolates the other way, from cp[b] to cp[a].
CopyLerpBackwards(h, cp, st) ==
    LerpTo(CopyFrom(h, cp[st[1] + 1], cp[st[3] + 1]), cp[st[1] + 1], cp[st[2] + 1], st[4])

\* cp[k].copy(cp[a]).lerp(cp[b], t)
CopyLerp(h, cp, st) ==
    LerpTo(CopyFrom(h, cp[st[1] + 1], cp[st[2] + 1]), cp[st[1] + 1], cp[st[3] + 1], st[4])

RECURSIVE LinearLoop(_, _, _)
LinearLoop(h, cp, n) ==
    IF n > Len(LinearSteps) THEN h
    ELSE LinearLoop(CopyLerp(h, cp, LinearSteps[n]), cp, n + 1)

\* BezierPatch3.update() with options.mode = mode and the given previewMode:
\* the control points after it, or what it throws. (The visible flags it
\* sets and ControlPoint.update act on the DOM elements only.)
BezierPatch3Update(h, cell, mode, previewMode) ==
    IF previewMode THEN h
    ELSE IF mode = "linear" THEN LinearLoop(h, cell.controlPoints, 1)
    ELSE IF mode = "bezier" THEN h
    ELSE Thrown("Invalid patch mode: ", mode)

\* this.bezierPatches.forEach(p => p.update()): the cells in the order of the
\* array, ended by the first exception.
RECURSIVE UpdateLoop(_, _, _, _, _)
UpdateLoop(h, cells, mode, previewMode, n) ==
    IF n > Len(cells) THEN [points |-> h, threw |-> FALSE]
    ELSE LET updated == BezierPatch3Update(h, cells[n], mode, previewMode)
         IN  IF updated = Thrown("Invalid patch mode: ", mode)
             THEN [points |-> h, threw |-> TRUE]
             ELSE UpdateLoop(updated, cells, mode, previewMode, n + 1)

\* Patch.update()
PatchUpdate(h, g, mode, previewMode) == UpdateLoop(h, g.cells, mode, previewMode, 1)

\* Values of options.mode (configure accepts any) and of previewMode.
Modes == {"bezier", "linear", "cubic"}

\* updatePatch(), a step of the frame loop: this.patch.update().
DoUpdate ==
    \E mode \in Modes, previewMode \in BOOLEAN :
        /\ \E r \in {PatchUpdate(points, bezierPatches, mode, previewMode)} :
               /\ points' = r.points
               /\ last' = [Op("update") EXCEPT !.mode = mode,
                                                !.previewMode = previewMode,
                                                !.threw = r.threw]
        /\ UNCHANGED <<bezierPatches, patchCount, saved, moves, history,
                       selectedControlPoints, textures>>

\* An editing session with the frames in between.
NextUpdate ==
    \/ DoInitFromCorners
    \/ DoSubdivideHorizontal
    \/ DoSubdivideVertical
    \/ DoMouseMove
    \/ DoUpdate

SpecUpdate == Init /\ [][NextUpdate]_vars

(* ---------------------------- undo / redo ---------------------------- *)

\* The largest number of control point objects ever created and of history
\* entries in a session with undo and redo.
MaxHeap == 76
MaxEntries == 3

\* saveHistory(): this.history.insert({ patchData: this.patch.save() })
SaveHistoryOf(s, hist) ==
    [points |-> s.points, history |-> HistoryInsert(hist, [patchData |-> s.data])]

SaveHistory(h, g, hist) == SaveHistoryOf(Save(h, g), hist)

\* restoreHistory(): this.patch.restore(this.history.current().patchData)
RestoreHistory(h, g, id, hist) == Restore(h, g, id, HistoryCurrent(hist).patchData)

\* The history moved to hist, then restoreHistory(): the history, the heap
\* and the grid afterwards.
MoveTo(h, g, id, hist) ==
    [history |-> hist,
     patch |-> RestoreHistory(h, g, id, hist)]

\* undo(): this.history.back(); this.restoreHistory()
Undo(h, g, id, hist) == MoveTo(h, g, id, HistoryBack(hist))

\* redo(): this.history.forward(); this.restoreHistory()
Redo(h, g, id, hist) == MoveTo(h, g, id, HistoryForward(hist))

\* Math.min(...xs) and Math.max(...xs) of a non-empty set of numbers.
MathMin(xs) ==
    IF \E x \in xs : IsNaN(x) THEN NaN
    ELSE CHOOSE x \in xs : \A y \in xs : RLe(x, y)

MathMax(xs) ==
    IF \E x \in xs : IsNaN(x) THEN NaN
    ELSE CHOOSE x \in xs : \A y \in xs : RLe(y, x)

\* selectedControlPoints.forEach(e => e.x = x) for axis 1, e.y = y for axis 2
SetCoordinate(h, sel, axis, value) ==
    [p \in 1..Len(h) |->
        IF \E k \in 1..Len(sel) : sel[k] = p
        THEN [h[p] EXCEPT !.pos[axis] = value]
        ELSE h[p]]

\* The coordinates of the selected points on an axis.
Coordinates(h, sel, axis) == {h[sel[k]].pos[axis] : k \in 1..Len(sel)}

\* The moves of alignSelectedPoints(direction), direction one of the four.
AlignPoints(h, sel, direction) ==
    IF direction = "left"
    THEN SetCoordinate(h, sel, 1, MathMin(Coordinates(h, sel, 1)))
    ELSE IF direction = "right"
    THEN SetCoordinate(h, sel, 1, MathMax(Coordinates(h, sel, 1)))
    ELSE IF direction = "top"
    THEN SetCoordinate(h, sel, 2, MathMax(Coordinates(h, sel, 2)))
    ELSE SetCoordinate(h, sel, 2, MathMin(Coordinates(h, sel, 2)))

\* Directions handed to alignSelectedPoints.
Directions == {"left", "middle"}

\* Cut parameters of the clicks of a session with undo and redo.
ClickParams == {R(1, 2)}

\* The state new BezierMeshProjection(options) leaves: reset has built the
\* one-cell patch and createHistory has recorded it.
InitHistory ==
    \E c \in CornerChoices :
        \E r \in {InitFromCorners(<<>>, NoGrid, 1, c.tl, c.tr, c.bl, c.br)} :
          \E s \in {SaveHistory(r.points, r.grid, NewHistory)} :
            /\ points = s.points
            /\ bezierPatches = r.grid
            /\ history = s.history
            /\ patchCount = 1
            /\ saved = NoSave
            /\ moves = 0
            /\ last = Op("new BezierMeshProjection")
            /\ selectedControlPoints = <<>>
            /\ textures = Configure(NewTextures, "null")

\* click with the horizontal cut tool on the mesh: subdivideHorizontal(uv.y),
\* then saveHistory.
DoClickHorizontalCut ==
    \E v \in ClickParams :
        /\ last.op # "mousemove"
        /\ Len(history.data) < MaxEntries
        /\ Len(points) + 3 + 9 * bezierPatches.colCount <= MaxHeap
        /\ IF RowIndexOf(bezierPatches, v) = -1
           THEN /\ last' = [Op("click HorizontalCut") EXCEPT !.cut = v, !.threw = TRUE]
                /\ UNCHANGED <<points, bezierPatches, patchCount, history>>
           ELSE /\ \E r \in {SubdivideHorizontal(points, bezierPatches, patchCount, v)} :
                     \E s \in {SaveHistory(r.points, r.grid, history)} :
                       /\ points' = s.points
                       /\ bezierPatches' = r.grid
                       /\ history' = s.history
                /\ patchCount' = patchCount + 2 * bezierPatches.colCount
                /\ last' = [Op("click HorizontalCut") EXCEPT !.cut = v]
        /\ UNCHANGED <<saved, moves,
                       selectedControlPoints, textures>>

\* click with the vertical cut tool on the mesh: subdivideVertical(uv.x),
\* then saveHistory.
DoClickVerticalCut ==
    \E u \in ClickParams :
        /\ last.op # "mousemove"
        /\ Len(history.data) < MaxEntries
        /\ Len(points) + 3 + 9 * bezierPatches.rowCount <= MaxHeap
        /\ IF ColIndexOf(bezierPatches, u) = -1
           THEN /\ last' = [Op("click VerticalCut") EXCEPT !.cut = u, !.threw = TRUE]
                /\ UNCHANGED <<points, bezierPatches, patchCount, history>>
           ELSE /\ \E r \in {SubdivideVertical(points, bezierPatches, patchCount, u)} :
                     \E s \in {SaveHistory(r.points, r.grid, history)} :
                       /\ points' = s.points
                       /\ bezierPatches' = r.grid
                       /\ history' = s.history
                /\ patchCount' = patchCount + 2 * bezierPatches.rowCount
                /\ last' = [Op("click VerticalCut") EXCEPT !.cut = u]
        /\ UNCHANGED <<saved, moves,
                       selectedControlPoints, textures>>

\* mouseup with the arrow tool after mousemove has dragged the selected
\* control points: saveHistory.
DoMouseUp ==
    /\ last.op = "mousemove"
    /\ Len(history.data) < MaxEntries
    /\ \E s \in {SaveHistory(points, bezierPatches, history)} :
           /\ points' = s.points
           /\ history' = s.history
    /\ last' = [Op("mouseup") EXCEPT !.sel = last.sel]
    /\ UNCHANGED <<bezierPatches, patchCount, saved, moves,
                   selectedControlPoints, textures>>

\* alignSelectedPoints(direction)
DoAlignSelectedPoints ==
    \E sel \in DragSelections, direction \in Directions :
        /\ last.op # "mousemove"
        /\ Len(history.data) < MaxEntries
        /\ IF Len(sel) < 2
           THEN /\ last' = [Op("alignSelectedPoints") EXCEPT !.sel = sel, !.mode = direction]
                /\ UNCHANGED <<points, history>>
           ELSE IF direction \notin {"left", "right", "top", "bottom"}
           THEN /\ last' = [Op("alignSelectedPoints") EXCEPT !.sel = sel, !.mode = direction,
                                                             !.threw = TRUE]
                /\ UNCHANGED <<points, history>>
           ELSE /\ \E s \in {SaveHistory(AlignPoints(points, sel, direction),
                                           bezierPatches, history)} :
                       /\ points' = s.points
                       /\ history' = s.history
                /\ last' = [Op("alignSelectedPoints") EXCEPT !.sel = sel, !.mode = direction]
        /\ selectedControlPoints' = sel
        /\ UNCHANGED <<bezierPatches, patchCount, saved, moves, textures>>

\* undo()
DoUndo ==
    /\ last.op # "mousemove"
    /\ Len(points) + Len(HistoryCurrent(HistoryBack(history)).patchData.controlPoints)
           <= MaxHeap
    /\ \E r \in {Undo(points, bezierPatches, patchCount, history)} :
           /\ points' = r.patch.points
           /\ bezierPatches' = r.patch.grid
           /\ history' = r.history
    /\ patchCount' = patchCount + Len(HistoryCurrent(HistoryBack(history)).patchData.patches)
    /\ last' = Op("undo")
    /\ UNCHANGED <<saved, moves,
                   selectedControlPoints, textures>>

\* redo()
DoRedo ==
    /\ last.op # "mousemove"
    /\ Len(points) + Len(HistoryCurrent(HistoryForward(history)).patchData.controlPoints)
           <= MaxHeap
    /\ \E r \in {Redo(points, bezierPatches, patchCount, history)} :
           /\ points' = r.patch.points
           /\ bezierPatches' = r.patch.grid
           /\ history' = r.history
    /\ patchCount' = patchCount + Len(HistoryCurrent(HistoryForward(history)).patchData.patches)
    /\ last' = Op("redo")
    /\ UNCHANGED <<saved, moves,
                   selectedControlPoints, textures>>

\* A session of the editor: cuts, drags and alignments, undone and redone.
NextHistory ==
    \/ DoClickHorizontalCut
    \/ DoClickVerticalCut
    \/ DoMouseMove
    \/ DoMouseUp
    \/ DoAlignSelectedPoints
    \/ DoUndo
    \/ DoRedo

SpecHistory == InitHistory /\ [][NextHistory]_vars

\* The most control points a selection holds.
MaxSelected == 2

\* The control points a mousedown can land on: two handles of the first
\* cell; 0 stands for a mousedown that lands on no handle.
Handles ==
    IF ~Initialised THEN {}
    ELSE LET c == bezierPatches.cells[1]
         IN  {CP(c, 2), CP(c, 5)}

\* selectedControlPoints after mousedown with the arrow tool: on a handle cp
\* not selected yet, pushed with ShiftLeft held and alone otherwise; on no
\* handle, emptied unless ShiftLeft is held.
MouseDownSelection(selection, cp, shift) ==
    IF cp # 0
    THEN IF \E n \in 1..Len(selection) : selection[n] = cp THEN selection
         ELSE IF shift THEN Append(selection, cp)
         ELSE <<cp>>
    ELSE IF shift THEN selection ELSE <<>>

\* mousedown with the arrow tool: the selection, and dragInfo.patchData =
\* patch.save().
DoMouseDown ==
    \E cp \in Handles \cup {0}, shift \in BOOLEAN :
        /\ Initialised
        /\ last.op # "mousemove"
        /\ Len(selectedControlPoints) < MaxSelected \/ ~shift
        /\ selectedControlPoints' = MouseDownSelection(selectedControlPoints, cp, shift)
        /\ \E r \in {Save(points, bezierPatches)} :
               /\ points' = r.points
               /\ saved' = r.data
        /\ last' = [Op("mousedown") EXCEPT !.args = <<cp, shift>>]
        /\ UNCHANGED <<bezierPatches, patchCount, moves, history, textures>>

\* A session of selections and cuts, undone and redone.
NextSelection ==
    \/ DoMouseDown
    \/ DoClickHorizontalCut
    \/ DoClickVerticalCut
    \/ DoUndo
    \/ DoRedo

SpecSelection == InitHistory /\ [][NextSelection]_vars

\* The most calls of configure after the constructor's.
MaxConfigures == 3

\* Values of options.texture.
TextureUrls == {"", "A", "B"}

\* configure({texture: url})
DoConfigure ==
    \E url \in TextureUrls :
        /\ Len(textures.requests) < MaxConfigures + 1
        /\ textures' = Configure(textures, url)
        /\ last' = [Op("configure") EXCEPT !.args = <<url>>]
        /\ UNCHANGED <<points, bezierPatches, patchCount, saved, moves, history,
                       selectedControlPoints>>

\* The image of a texture being loaded arrives.
DoTextureLoaded ==
    \E n \in Loading(textures) :
        /\ textures' = TextureLoaded(textures, n)
        /\ last' = [Op("onLoad") EXCEPT !.args = <<n>>]
        /\ UNCHANGED <<points, bezierPatches, patchCount, saved, moves, history,
                       selectedControlPoints>>

\* The load of a texture fails.
DoTextureFailed ==
    \E n \in Loading(textures) :
        /\ textures' = TextureFailed(textures, n)
        /\ last' = [Op("onError") EXCEPT !.args = <<n>>]
        /\ UNCHANGED <<points, bezierPatches, patchCount, saved, moves, history,
                       selectedControlPoints>>

\* Calls of configure and the loads they start, settling in any order.
NextTextures ==
    \/ DoConfigure
    \/ DoTextureLoaded
    \/ DoTextureFailed

SpecTextures == InitHistory /\ [][NextTextures]_vars

(* ----------------------- the History on its own ---------------------- *)

\* The number of insert calls on one History.
MaxInserts == 6

\* new History()
InitNewHistory ==
    /\ history = NewHistory
    /\ points = <<>>
    /\ bezierPatches = NoGrid
    /\ patchCount = 0
    /\ saved = NoSave
    /\ moves = 0
    /\ last = Op("new History")
    /\ selectedControlPoints = <<>>
    /\ textures = NewTextures

\* new History() followed by a first insert (of the element 1).
InitInserted ==
    /\ history = HistoryInsert(NewHistory, 1)
    /\ points = <<>>
    /\ bezierPatches = NoGrid
    /\ patchCount = 1
    /\ saved = NoSave
    /\ moves = 0
    /\ last = [Op("insert") EXCEPT !.args = <<1>>]
    /\ selectedControlPoints = <<>>
    /\ textures = NewTextures

\* history.insert(e), e a new element (numbered patchCount + 1)
DoHistoryInsert ==
    /\ patchCount < MaxInserts
    /\ history' = HistoryInsert(history, patchCount + 1)
    /\ patchCount' = patchCount + 1
    /\ last' = [Op("insert") EXCEPT !.args = <<patchCount + 1>>]
    /\ UNCHANGED <<points, bezierPatches, saved, moves,
                   selectedControlPoints, textures>>

\* history.back()
DoHistoryBack ==
    /\ history' = HistoryBack(history)
    /\ last' = Op("back")
    /\ UNCHANGED <<points, bezierPatches, patchCount, saved, moves,
                   selectedControlPoints, textures>>

\* history.forward()
DoHistoryForward ==
    /\ history' = HistoryForward(history)
    /\ last' = Op("forward")
    /\ UNCHANGED <<points, bezierPatches, patchCount, saved, moves,
                   selectedControlPoints, textures>>

NextHistoryObject ==
    \/ DoHistoryInsert
    \/ DoHistoryBack
    \/ DoHistoryForward

\* A History from its construction on, under any sequence of its operations.
SpecNewHistory == InitNewHistory /\ [][NextHistoryObject]_vars

\* A History whose first operation was an insert.
SpecInserted == InitInserted /\ [][NextHistoryObject]_vars

(* ------------------------- the Grid on its own ------------------------ *)

\* The largest number of rows and of columns of the grids, and the number
\* of set calls on one grid.
MaxGridSide == 2
MaxGridSets == 2

\* new Grid(rows, cols), rows and cols any non-negative integers.
InitGrid ==
    \E rows \in 0..MaxGridSide, cols \in 0..MaxGridSide :
        /\ bezierPatches = NewGrid(rows, cols)
        /\ last = [Op("new Grid") EXCEPT !.args = <<rows, cols>>]
        /\ points = <<>>
        /\ patchCount = 0
        /\ saved = NoSave
        /\ history = NewHistory
        /\ moves = 0
        /\ selectedControlPoints = <<>>
        /\ textures = NewTextures

\* grid.set(i, j, v), i and j in range, v a new object (numbered patchCount + 1)
DoGridSet ==
    \E i \in 0..(bezierPatches.rowCount - 1), j \in 0..(bezierPatches.colCount - 1) :
        /\ patchCount < MaxGridSets
        /\ bezierPatches' = GridSet(bezierPatches, i, j,
                                    BezierPatch3(patchCount + 1, <<>>, <<>>))
        /\ patchCount' = patchCount + 1
        /\ last' = [Op("set") EXCEPT !.args = <<i, j>>]
        /\ UNCHANGED <<points, saved, moves, history,
                       selectedControlPoints, textures>>

\* grid.inserRow(index), 0 <= index <= rowCount
DoGridInserRow ==
    \E index \in 0..bezierPatches.rowCount :
        /\ bezierPatches.rowCount < MaxGridSide
        /\ bezierPatches' = InserRow(bezierPatches, index)
        /\ last' = [Op("inserRow") EXCEPT !.args = <<index>>]
        /\ UNCHANGED <<points, patchCount, saved, moves, history,
                       selectedControlPoints, textures>>

\* grid.insertColumn(index), 0 <= index <= colCount
DoGridInsertColumn ==
    \E index \in 0..bezierPatches.colCount :
        /\ bezierPatches.colCount < MaxGridSide
        /\ bezierPatches' = InsertColumn(bezierPatches, index)
        /\ last' = [Op("insertColumn") EXCEPT !.args = <<index>>]
        /\ UNCHANGED <<points, patchCount, saved, moves, history,
                       selectedControlPoints, textures>>

\* grid.deleteRow(i), 0 <= i < rowCount
DoGridDeleteRow ==
    \E i \in 0..(bezierPatches.rowCount - 1) :
        /\ bezierPatches' = DeleteRow(bezierPatches, i)
        /\ last' = [Op("deleteRow") EXCEPT !.args = <<i>>]
        /\ UNCHANGED <<points, patchCount, saved, moves, history,
                       selectedControlPoints, textures>>

\* grid.deleteColumn(j), 0 <= j < colCount
DoGridDeleteColumn ==
    \E j \in 0..(bezierPatches.colCount - 1) :
        /\ bezierPatches' = DeleteColumn(bezierPatches, j)
        /\ last' = [Op("deleteColumn") EXCEPT !.args = <<j>>]
        /\ UNCHANGED <<points, patchCount, saved, moves, history,
                       selectedControlPoints, textures>>

NextGrid ==
    \/ DoGridSet
    \/ DoGridInserRow
    \/ DoGridInsertColumn
    \/ DoGridDeleteRow
    \/ DoGridDeleteColumn

\* A Grid from its construction on, under any sequence of its operations.
SpecGrid == InitGrid /\ [][NextGrid]_vars

(* ------------------------- properties: cuts --------------------------- *)

\* The cell (i, j) of a grid, i and j counted from 0.
Cell(g, i, j) == g.cells[i * g.colCount + j + 1]

\* Parameters inside each quarter of [0,1], and its ends and middle.
Inner == {R(1, 8), R(3, 8), R(5, 8), R(7, 8)}
Edge == {R(0, 1), R(1, 2), R(1, 1)}

\* The points (u, v) at which two surfaces are compared.
SamplePoints == (Inner \X Inner) \cup (Edge \X Edge)

\* The cut v lies strictly inside the span of the first row of g whose span
\* contains it.
CutInsideRow(g, v) ==
    \E k \in 0..(g.rowCount - 1) :
        /\ RLt(Cell(g, k, 0).domain.v0, v) /\ RLt(v, Cell(g, k, 0).domain.v1)
        /\ \A m \in 0..(k - 1) :
               ~(RLe(Cell(g, m, 0).domain.v0, v) /\ RLe(v, Cell(g, m, 0).domain.v1))

\* The cut u lies strictly inside the span of the first column of g whose
\* span contains it.
CutInsideColumn(g, u) ==
    \E k \in 0..(g.colCount - 1) :
        /\ RLt(Cell(g, 0, k).domain.u0, u) /\ RLt(u, Cell(g, 0, k).domain.u1)
        /\ \A m \in 0..(k - 1) :
               ~(RLe(Cell(g, 0, m).domain.u0, u) /\ RLe(u, Cell(g, 0, m).domain.u1))

\* The step is a subdivision whose cut is strictly inside the row / column
\* it hits.
InteriorCutStep ==
    \/ last'.op = "subdivideHorizontal" /\ CutInsideRow(bezierPatches, last'.cut)
    \/ last'.op = "subdivideVertical" /\ CutInsideColumn(bezierPatches, last'.cut)

\* Patch.compute(u, v, "bezier") gives the same value after the step as
\* before it, at every sample point.
SameSurface ==
    \A s \in SamplePoints :
        PatchCompute(points', bezierPatches', s[1], s[2], "bezier")
            = PatchCompute(points, bezierPatches, s[1], s[2], "bezier")

\* C1: shape preservation.  A subdivideHorizontal(v) or subdivideVertical(u)
\* whose cut lies strictly inside the span of the row / column it hits, in
\* a grid reached by initFromCorners, subdivisions and control point moves,
\* leaves Patch.compute(u, v, "bezier") unchanged for all (u, v) of the
\* unit square (compared at SamplePoints).
ShapePreservation == [][InteriorCutStep => SameSurface]_vars

\* A 2 x 2 grid just produced by a vertical cut strictly inside the column
\* it hit, after a control point was dragged.
ShapePreservationWitness ==
    /\ last.op = "subdivideVertical" /\ ~last.threw
    /\ moves = 1
    /\ bezierPatches.rowCount = 2 /\ bezierPatches.colCount = 2
    /\ Cell(bezierPatches, 0, 0).domain.u1 = last.cut
    /\ RLt(Cell(bezierPatches, 0, 0).domain.u0, last.cut)
    /\ RLt(last.cut, Cell(bezierPatches, 0, 1).domain.u1)

\* C2: shared-edge identity.  In every state reached from initFromCorners
\* by subdivisions, horizontal neighbours hold the same control point
\* objects on the common edge (left[3,7,11,15] are right[0,4,8,12]) and so
\* do vertical neighbours (bottom[12..15] are top[0..3], row i below row
\* i + 1), in split and unsplit rows and columns alike.
SharedEdgeIdentity ==
    LET g == bezierPatches
    IN  \A i \in 0..(g.rowCount - 1), j \in 0..(g.colCount - 1) :
            /\ j + 1 < g.colCount =>
                   \A k \in {3, 7, 11, 15} :
                       CP(Cell(g, i, j), k) = CP(Cell(g, i, j + 1), k - 3)
            /\ i + 1 < g.rowCount =>
                   \A k \in {12, 13, 14, 15} :
                       CP(Cell(g, i, j), k) = CP(Cell(g, i + 1, j), k - 12)

\* A 2 x 2 grid just produced by a horizontal cut through a row of two
\* cells.
SharedEdgeIdentityWitness ==
    /\ last.op = "subdivideHorizontal" /\ ~last.threw
    /\ bezierPatches.rowCount = 2 /\ bezierPatches.colCount = 2

\* The area of a Domain.
Area(d) == RMul(RSub(d.u1, d.u0), RSub(d.v1, d.v0))

RECURSIVE TotalArea(_, _)
TotalArea(cells, n) ==
    IF n > Len(cells) THEN Zero ELSE RAdd(Area(cells[n].domain), TotalArea(cells, n + 1))

\* Two Domains overlap in more than a boundary line.
InteriorsOverlap(d, e) ==
    /\ RLt(d.u0, e.u1) /\ RLt(e.u0, d.u1)
    /\ RLt(d.v0, e.v1) /\ RLt(e.v0, d.v1)

\* Parameters at every multiple of 1/8: the cut lines and between them.
Ticks ==
    {R(0, 1), R(1, 8), R(1, 4), R(3, 8), R(1, 2), R(5, 8), R(3, 4), R(7, 8), R(1, 1)}

\* C3: tiling.  In every state reached from initFromCorners by subdivisions
\* (with interior cuts, and with the cuts on a row or column boundary the
\* cut tools can also pass), the cell Domains tile the unit square: each
\* lies in it, every (u, v) is contained in some Domain (at Ticks x Ticks,
\* and the areas add up to 1), and no two distinct cells overlap in more
\* than a boundary line.
Tiling ==
    LET cells == bezierPatches.cells
    IN  Initialised =>
            /\ \A n \in 1..Len(cells) :
                   LET d == cells[n].domain
                   IN  /\ RLe(Zero, d.u0) /\ RLe(d.u0, d.u1) /\ RLe(d.u1, One)
                       /\ RLe(Zero, d.v0) /\ RLe(d.v0, d.v1) /\ RLe(d.v1, One)
            /\ \A u \in Ticks, v \in Ticks :
                   \E n \in 1..Len(cells) :
                       LET d == cells[n].domain
                       IN  /\ RLe(d.u0, u) /\ RLe(u, d.u1)
                           /\ RLe(d.v0, v) /\ RLe(v, d.v1)
            /\ TotalArea(cells, 1) = One
            /\ \A m \in 1..Len(cells), n \in 1..Len(cells) :
                   m # n => ~InteriorsOverlap(cells[m].domain, cells[n].domain)

\* A grid of three rows cut strictly inside their rows: every row has
\* positive height.
TilingWitness ==
    /\ bezierPatches.rowCount = 3
    /\ \A i \in 0..2 :
           RLt(Cell(bezierPatches, i, 0).domain.v0, Cell(bezierPatches, i, 0).domain.v1)

\* The first row of g whose span contains v / column whose span contains u.
FirstRowWith(g, v) ==
    CHOOSE k \in 0..(g.rowCount - 1) :
        /\ RLe(Cell(g, k, 0).domain.v0, v) /\ RLe(v, Cell(g, k, 0).domain.v1)
        /\ \A m \in 0..(k - 1) :
               ~(RLe(Cell(g, m, 0).domain.v0, v) /\ RLe(v, Cell(g, m, 0).domain.v1))

FirstColumnWith(g, u) ==
    CHOOSE k \in 0..(g.colCount - 1) :
        /\ RLe(Cell(g, 0, k).domain.u0, u) /\ RLe(u, Cell(g, 0, k).domain.u1)
        /\ \A m \in 0..(k - 1) :
               ~(RLe(Cell(g, 0, m).domain.u0, u) /\ RLe(u, Cell(g, 0, m).domain.u1))

\* The effect of subdivideHorizontal(v) on the grid, g before and g2 after,
\* made new BezierPatch3 objects being those with an id above made.
HorizontalCutEffect(g, g2, v, made) ==
    LET k == FirstRowWith(g, v)
    IN  /\ g2.rowCount = g.rowCount + 1
        /\ g2.colCount = g.colCount
        /\ Len(g2.cells) = g2.rowCount * g2.colCount
        /\ \A j \in 0..(g.colCount - 1) :
               LET old == Cell(g, k, j).domain
                   bottom == Cell(g2, k, j)
                   top == Cell(g2, k + 1, j)
               IN  /\ bottom.domain = [u0 |-> old.u0, v0 |-> old.v0, u1 |-> old.u1, v1 |-> v]
                   /\ top.domain = [u0 |-> old.u0, v0 |-> v, u1 |-> old.u1, v1 |-> old.v1]
                   /\ bottom.id > made /\ top.id > made /\ bottom.id # top.id
        /\ \A i \in 0..(g.rowCount - 1), j \in 0..(g.colCount - 1) :
               /\ i < k => Cell(g2, i, j) = Cell(g, i, j)
               /\ i > k => Cell(g2, i + 1, j) = Cell(g, i, j)

\* The effect of subdivideVertical(u) on the grid.
VerticalCutEffect(g, g2, u, made) ==
    LET k == FirstColumnWith(g, u)
    IN  /\ g2.rowCount = g.rowCount
        /\ g2.colCount = g.colCount + 1
        /\ Len(g2.cells) = g2.rowCount * g2.colCount
        /\ \A i \in 0..(g.rowCount - 1) :
               LET old == Cell(g, i, k).domain
                   left == Cell(g2, i, k)
                   right == Cell(g2, i, k + 1)
               IN  /\ left.domain = [u0 |-> old.u0, v0 |-> old.v0, u1 |-> u, v1 |-> old.v1]
                   /\ right.domain = [u0 |-> u, v0 |-> old.v0, u1 |-> old.u1, v1 |-> old.v1]
                   /\ left.id > made /\ right.id > made /\ left.id # right.id
        /\ \A i \in 0..(g.rowCount - 1), j \in 0..(g.colCount - 1) :
               /\ j < k => Cell(g2, i, j) = Cell(g, i, j)
               /\ j > k => Cell(g2, i, j + 1) = Cell(g, i, j)

\* C4: effect of a cut on the grid.  subdivideHorizontal(v) on an R x C
\* grid whose row k is the first to contain v gives an (R+1) x C grid whose
\* rows k and k + 1 hold, in every column j, a new bottom patch with Domain
\* (u0, v0, u1, v) and a new top patch with Domain (u0, v, u1, v1) of the
\* old cell (k, j), every other row keeping its patch objects, their order
\* and their Domains; subdivideVertical(u) likewise with rows and columns
\* exchanged.
CutEffect ==
    [][/\ (last'.op = "subdivideHorizontal" /\ ~last'.threw) =>
              HorizontalCutEffect(bezierPatches, bezierPatches', last'.cut, patchCount)
       /\ (last'.op = "subdivideVertical" /\ ~last'.threw) =>
              VerticalCutEffect(bezierPatches, bezierPatches', last'.cut, patchCount)]_vars

\* A grid of three rows whose lowest row was just cut at 1/4, the two rows
\* above it moving up by one.
CutEffectWitness ==
    /\ last.op = "subdivideHorizontal" /\ ~last.threw
    /\ last.cut = R(1, 4)
    /\ bezierPatches.rowCount = 3
    /\ Cell(bezierPatches, 0, 0).domain.v1 = last.cut
    /\ Cell(bezierPatches, 1, 0).domain.v0 = last.cut

(* ---------------------- properties: save / restore -------------------- *)

\* The object in slot n (from 1) of a grid: control point (n - 1) % 16 of
\* the cell (n - 1) \div 16 in row-major order.
Slot(g, n) == CP(g.cells[(n - 1) \div 16 + 1], (n - 1) % 16)

\* Grid g2 on heap h2 is grid g on heap h up to object identity: the same
\* shape, Domains, slot positions, sharing of slots and links between slots.
SameUpToIdentity(h, g, h2, g2) ==
    LET slots == 1..(16 * Len(g.cells))
    IN  /\ g2.rowCount = g.rowCount
        /\ g2.colCount = g.colCount
        /\ Len(g2.cells) = Len(g.cells)
        /\ \A c \in 1..Len(g.cells) : g2.cells[c].domain = g.cells[c].domain
        /\ \A n \in slots : h2[Slot(g2, n)].pos = h[Slot(g, n)].pos
        /\ \A m \in slots, n \in slots :
               (Slot(g2, m) = Slot(g2, n)) <=> (Slot(g, m) = Slot(g, n))
        /\ \A n \in slots :
               LET mp == h[Slot(g, n)].mirrorPoint
                   mp2 == h2[Slot(g2, n)].mirrorPoint
               IN  IF mp = NoLink THEN mp2 = NoLink
                   ELSE /\ mp2 # NoLink
                        /\ \E m \in slots : Slot(g, m) = mp.other
                        /\ \E m \in slots : Slot(g, m) = mp.reference
                        /\ \A m \in slots :
                               /\ (Slot(g, m) = mp.other) <=> (Slot(g2, m) = mp2.other)
                               /\ (Slot(g, m) = mp.reference)
                                      <=> (Slot(g2, m) = mp2.reference)

\* C5: save / restore round trip.  For every Patch P reached by
\* initFromCorners, subdivisions and control point moves (and by earlier
\* saves and restores), restore(save(P)) has the rowCount and colCount of P,
\* the same Domain in every cell, the same position in every (cell, index)
\* slot, the same sharing of slots and the same mirror links between slots;
\* the objects themselves are new.
SaveRestoreRoundTrip ==
    Initialised =>
        LET s == Save(points, bezierPatches)
            r == Restore(s.points, bezierPatches, patchCount, s.data)
        IN  /\ SameUpToIdentity(points, bezierPatches, r.points, r.grid)
            /\ \A n \in 1..(16 * Len(bezierPatches.cells)) :
                   Slot(r.grid, n) > Len(points)

\* A grid of at least three cells with a dragged control point, saved
\* before in another shape.
SaveRestoreRoundTripWitness ==
    /\ Len(bezierPatches.cells) >= 3
    /\ moves = 1
    /\ saved # NoSave
    /\ Len(saved.patches) # Len(bezierPatches.cells)

(* ------------------------- properties: compute ------------------------ *)

\* The cut lines the tools can make.
Lines == {R(1, 4), R(1, 2), R(3, 4)}

\* The points (u, v) at which Patch.compute is called: where cut lines can
\* cross, and two corners of the unit square.
ScanPoints == (Lines \X Lines) \cup {<<Zero, Zero>>, <<One, One>>}

\* The cells (from 1, in row-major order) whose Domain contains (u, v),
\* both ends of both axes included.
CellsContaining(g, u, v) ==
    {n \in 1..Len(g.cells) :
        /\ RLe(g.cells[n].domain.u0, u) /\ RLe(u, g.cells[n].domain.u1)
        /\ RLe(g.cells[n].domain.v0, v) /\ RLe(v, g.cells[n].domain.v1)}

\* C6: Patch.compute(u, v, mode) returns the evaluation of the first cell,
\* in row-major order, whose Domain contains (u, v), u0 <= u <= u1 and
\* v0 <= v <= v1; a point on a boundary shared by two cells is evaluated by
\* the cell of lower row-major index.
FirstContainingCell ==
    Initialised =>
        \A s \in ScanPoints, mode \in {"linear", "bezier"} :
            LET hits == CellsContaining(bezierPatches, s[1], s[2])
                first == CHOOSE n \in hits : \A m \in hits : n <= m
            IN  PatchCompute(points, bezierPatches, s[1], s[2], mode)
                    = IF hits = {} THEN Undefined
                      ELSE BezierPatch3Compute(points, bezierPatches.cells[first],
                                               s[1], s[2], mode)

\* A 2 x 2 grid with a column boundary at u = 1/2 and a row boundary at
\* another v: (1/2, v) lies in all four cells.
FirstContainingCellWitness ==
    /\ bezierPatches.rowCount = 2 /\ bezierPatches.colCount = 2
    /\ Cell(bezierPatches, 0, 0).domain.u1 = R(1, 2)
    /\ Cell(bezierPatches, 0, 0).domain.v1 # R(1, 2)
    /\ Cardinality(CellsContaining(bezierPatches, R(1, 2),
                                   Cell(bezierPatches, 0, 0).domain.v1)) = 4

(* -------------------------- properties: drags ------------------------- *)

\* The effect of one call p.moveBy(offset, mirror) on the positions, h the
\* heap before and h2 after.
MoveByEffect(h, h2, p, offset, mirror) ==
    LET mp == h[p].mirrorPoint
    IN  /\ h2[p].pos = VAdd(h[p].pos, offset)
        /\ IF mirror /\ mp # NoLink
           THEN /\ h2[mp.reference].pos = h[mp.reference].pos
                /\ h2[mp.other].pos =
                       VAdd(h2[mp.reference].pos,
                            VSub(h2[mp.reference].pos, h2[p].pos))
                /\ \A q \in 1..Len(h) \ {p, mp.other} : h2[q].pos = h[q].pos
           ELSE \A q \in 1..Len(h) \ {p} : h2[q].pos = h[q].pos

\* C7: mirrored move.  moveBy(offset, mirror) translates the point by
\* offset; with mirror true and a link (other, reference) on the point,
\* afterwards other = reference + (reference - this) and reference has not
\* moved; with mirror false or no link no other point moves.  The drag
\* handler passes mirror = true only with the right button down and
\* exactly one control point selected, and a drag of several points moves
\* just these, each by the offset.
MirroredMove ==
    [][last'.op = "mousemove" =>
          LET sel == last'.sel
              picked == {sel[n] : n \in 1..Len(sel)}
          IN  /\ last'.mirror => (last'.rightButtonDown /\ Len(sel) = 1)
              /\ Len(points') = Len(points)
              /\ Len(sel) = 1 =>
                     MoveByEffect(points, points', sel[1], last'.offset,
                                  last'.rightButtonDown)
              /\ Len(sel) # 1 =>
                     \A q \in 1..Len(points) :
                         points'[q].pos =
                             IF q \in picked THEN VAdd(points[q].pos, last'.offset)
                             ELSE points[q].pos
              /\ \A q \in 1..Len(points) :
                     points'[q].mirrorPoint = points[q].mirrorPoint]_vars

\* A mirrored drag of a handle of the left cell of two, whose link goes to
\* the handle of the right cell across their common corner.
MirroredMoveWitness ==
    /\ last.op = "mousemove" /\ last.mirror
    /\ bezierPatches.colCount = 2
    /\ points[last.sel[1]].mirrorPoint # NoLink
    /\ points[last.sel[1]].mirrorPoint.other = CP(Cell(bezierPatches, 0, 1), 1)
    /\ points[last.sel[1]].mirrorPoint.reference = CP(Cell(bezierPatches, 0, 0), 3)

(* ------------------------ properties: mirror links -------------------- *)

\* The links <<point, other, reference>> the rule prescribes for the cell
\* (i, j) of g.
LinksOfCell(g, i, j) ==
    LET cp(k) == CP(Cell(g, i, j), k)
        hasL == j > 0
        hasR == j < g.colCount - 1
        hasB == i > 0
        hasT == i < g.rowCount - 1
        L(k) == CP(Cell(g, i, j - 1), k)
        Rt(k) == CP(Cell(g, i, j + 1), k)
        B(k) == CP(Cell(g, i - 1, j), k)
        T(k) == CP(Cell(g, i + 1, j), k)
    IN  (IF hasL THEN {<<cp(1), L(2), cp(0)>>, <<cp(13), L(14), cp(12)>>} ELSE {})
        \cup (IF hasR THEN {<<cp(2), Rt(1), cp(3)>>, <<cp(14), Rt(13), cp(15)>>} ELSE {})
        \cup (IF hasB THEN {<<cp(4), B(8), cp(0)>>, <<cp(7), B(11), cp(3)>>} ELSE {})
        \cup (IF hasT THEN {<<cp(8), T(4), cp(12)>>, <<cp(11), T(7), cp(15)>>} ELSE {})
        \cup (IF ~hasL /\ ~hasB
              THEN {<<cp(1), cp(4), cp(0)>>, <<cp(4), cp(1), cp(0)>>} ELSE {})
        \cup (IF ~hasR /\ ~hasB
              THEN {<<cp(2), cp(7), cp(3)>>, <<cp(7), cp(2), cp(3)>>} ELSE {})
        \cup (IF ~hasL /\ ~hasT
              THEN {<<cp(8), cp(13), cp(12)>>, <<cp(13), cp(8), cp(12)>>} ELSE {})
        \cup (IF ~hasR /\ ~hasT
              THEN {<<cp(11), cp(14), cp(15)>>, <<cp(14), cp(11), cp(15)>>} ELSE {})

\* The links the rule prescribes for the whole grid.
PrescribedLinks(g) ==
    UNION {LinksOfCell(g, i, j) : i \in 0..(g.rowCount - 1), j \in 0..(g.colCount - 1)}

\* On heap h every prescribed link of g is set and no control point of g
\* has any other link.
LinksAsPrescribed(h, g) ==
    LET links == PrescribedLinks(g)
    IN  /\ \A t \in links : h[t[1]].mirrorPoint = [other |-> t[2], reference |-> t[3]]
        /\ \A p \in PointsOf(g.cells) :
               (\A t \in links : t[1] # p) => h[p].mirrorPoint = NoLink

\* C8: relink rule.  After relinkControlPoints (the last step of
\* initFromCorners and of both subdivisions; drags do not touch links),
\* each cell links cp[1], cp[13] to its left neighbour's [2], [14] about
\* cp[0], cp[12]; cp[2], cp[14] to the right neighbour's [1], [13] about
\* cp[3], cp[15]; cp[4], cp[7] to the bottom neighbour's [8], [11] about
\* cp[0], cp[3]; cp[8], cp[11] to the top neighbour's [4], [7] about cp[12],
\* cp[15]; at a corner without both adjacent neighbours the two tangent
\* points mirror each other about it; every other control point has no
\* link.
RelinkRule == Initialised => LinksAsPrescribed(points, bezierPatches)

\* A 2 x 2 grid, where each cell has two neighbours and one exterior corner.
RelinkRuleWitness ==
    /\ bezierPatches.rowCount = 2 /\ bezierPatches.colCount = 2
    /\ last.op = "subdivideVertical"
    /\ moves = 0

\* The heap in which every control point of the grid carries a link that
\* no rule prescribes (to itself, about itself).
WithStaleLinks(h, g) ==
    [p \in 1..Len(h) |->
        IF p \in PointsOf(g.cells)
        THEN [h[p] EXCEPT !.mirrorPoint = MirrorPoint(p, p)]
        ELSE h[p]]

\* C9: relinkControlPoints is idempotent.  In every reachable grid a second
\* call leaves the link of every control point as the first call set it,
\* and after a call no control point of the grid has a link the topology
\* does not prescribe, whatever links the points carried before it.
RelinkIdempotent ==
    Initialised =>
        LET once == RelinkControlPoints(points, bezierPatches)
            twice == RelinkControlPoints(once, bezierPatches)
            fresh == RelinkControlPoints(WithStaleLinks(points, bezierPatches),
                                         bezierPatches)
        IN  /\ \A p \in 1..Len(points) : twice[p].mirrorPoint = once[p].mirrorPoint
            /\ LinksAsPrescribed(once, bezierPatches)
            /\ LinksAsPrescribed(fresh, bezierPatches)
            /\ \A p \in 1..Len(points) : fresh[p].mirrorPoint = once[p].mirrorPoint

\* A grid of three columns just cut: the handles of the middle column
\* changed their neighbours.
RelinkIdempotentWitness ==
    /\ bezierPatches.colCount = 3
    /\ last.op = "subdivideVertical"
    /\ \E p \in PointsOf(bezierPatches.cells) : points[p].mirrorPoint = NoLink

(* ----------------------- properties: initFromCorners ------------------ *)

\* A skew quadrilateral.
SkewQuad ==
    [tl |-> Vec(R(1, 1), R(3, 1), Zero), tr |-> Vec(R(6, 1), R(5, 1), Zero),
     bl |-> Vec(R(0, 1), R(0, 1), Zero), br |-> Vec(R(4, 1), R(1, 1), Zero)]

\* The corners of the unit square.
UnitSquare ==
    [tl |-> Vec(R(0, 1), R(1, 1), Zero), tr |-> Vec(R(1, 1), R(1, 1), Zero),
     bl |-> Vec(R(0, 1), R(0, 1), Zero), br |-> Vec(R(1, 1), R(0, 1), Zero)]

\* C10: initFromCorners(topLeft, topRight, bottomLeft, bottomRight), called
\* in any state, leaves a 1 x 1 grid whose cell has Domain (0, 0, 1, 1) and
\* 16 control points, all objects and pairwise distinct, cp[12], cp[15],
\* cp[0], cp[3] at topLeft, topRight, bottomLeft, bottomRight; on the unit
\* square compute(1/2, 1/2, "linear") is (1/2, 1/2).
InitFromCornersResult ==
    \A c \in CornerChoices \cup {UnitSquare, SkewQuad} :
        LET r == InitFromCorners(points, bezierPatches, patchCount + 1,
                                 c.tl, c.tr, c.bl, c.br)
            g == r.grid
            cell == g.cells[1]
        IN  /\ g.rowCount = 1 /\ g.colCount = 1 /\ Len(g.cells) = 1
            /\ cell # NullCell
            /\ cell.domain = [u0 |-> Zero, v0 |-> Zero, u1 |-> One, v1 |-> One]
            /\ Len(cell.controlPoints) = 16
            /\ \A k \in 0..15 : CP(cell, k) \in 1..Len(r.points)
            /\ \A k \in 0..15, m \in 0..15 : k # m => CP(cell, k) # CP(cell, m)
            /\ r.points[CP(cell, 12)].pos = c.tl
            /\ r.points[CP(cell, 15)].pos = c.tr
            /\ r.points[CP(cell, 0)].pos = c.bl
            /\ r.points[CP(cell, 3)].pos = c.br
            /\ c = UnitSquare =>
                   PatchCompute(r.points, g, R(1, 2), R(1, 2), "linear")
                       = Vec(R(1, 2), R(1, 2), Zero)

\* initFromCorners has just run on a grid of two cells (the 28 control
\* points of the first patch and of its subdivision are disposed).
InitFromCornersResultWitness ==
    /\ last.op = "initFromCorners"
    /\ bezierPatches.rowCount = 1 /\ bezierPatches.colCount = 1
    /\ Len(points) = 44
    /\ Cardinality({p \in 1..Len(points) : ~points[p].attached}) = 28

(* ------------------------ properties: domains ------------------------- *)

\* Every cell of g has a Domain with u0 < u1 and v0 < v1.
NonDegenerate(g) ==
    \A n \in 1..Len(g.cells) :
        /\ RLt(g.cells[n].domain.u0, g.cells[n].domain.u1)
        /\ RLt(g.cells[n].domain.v0, g.cells[n].domain.v1)

\* The step is a subdivision whose cut is an end of the span of the row /
\* column it hits: 0, 1 or an existing boundary.
BoundaryCutStep ==
    \/ /\ last'.op = "subdivideHorizontal" /\ ~last'.threw
       /\ ~CutInsideRow(bezierPatches, last'.cut)
    \/ /\ last'.op = "subdivideVertical" /\ ~last'.threw
       /\ ~CutInsideColumn(bezierPatches, last'.cut)

\* C11 as stated: in every state reached from initFromCorners by
\* subdivideHorizontal(v) / subdivideVertical(u) with v, u in [0,1], every
\* cell Domain has u0 < u1 and v0 < v1.
DomainNonDegenerate == Initialised => NonDegenerate(bezierPatches)

\* C11 amended: initFromCorners leaves a Domain with u0 < u1 and v0 < v1; a
\* subdivision whose cut lies strictly inside the span of the row / column
\* it hits keeps u0 < u1 and v0 < v1 in every cell; a subdivision whose cut
\* is an end of that span (0, 1 or an existing boundary) leaves a cell with
\* u0 = u1 or v0 = v1.
DomainNonDegenerateInteriorCuts ==
    [][/\ last'.op = "initFromCorners" => NonDegenerate(bezierPatches')
       /\ (InteriorCutStep /\ NonDegenerate(bezierPatches))
              => NonDegenerate(bezierPatches')
       /\ BoundaryCutStep => ~NonDegenerate(bezierPatches')]_vars

\* Three rows made by two horizontal cuts, each strictly inside a row.
DomainNonDegenerateWitness ==
    /\ last.op = "subdivideHorizontal" /\ ~last.threw
    /\ bezierPatches.rowCount = 3
    /\ NonDegenerate(bezierPatches)

(* ------------------------ properties: compute ------------------------- *)

\* Points (u, v) outside the unit square, and one that is not a number.
OutsidePoints ==
    {<<R(2, 1), R(1, 2)>>, <<R(1, 2), R(-1, 1)>>, <<R(-1, 4), R(5, 4)>>,
     <<R(1, 2), R(9, 8)>>, <<NaN, R(1, 2)>>}

\* C12: when no cell Domain contains (u, v), Patch.compute(u, v, mode)
\* produces no point: its result is undefined, not the zero vector nor any
\* other vector.
NoDefaultedPoint ==
    \A s \in OutsidePoints \cup ScanPoints, mode \in {"linear", "bezier"} :
        CellsContaining(bezierPatches, s[1], s[2]) = {} =>
            /\ PatchCompute(points, bezierPatches, s[1], s[2], mode) = Undefined
            /\ PatchCompute(points, bezierPatches, s[1], s[2], mode) # VZero
            /\ Len(PatchCompute(points, bezierPatches, s[1], s[2], mode)) # 3

\* A 2 x 2 grid none of whose cells contains any of the outside points.
NoDefaultedPointWitness ==
    /\ bezierPatches.rowCount = 2 /\ bezierPatches.colCount = 2
    /\ \A s \in OutsidePoints : CellsContaining(bezierPatches, s[1], s[2]) = {}

\* The cell's Domain has u0 < u1 and v0 < v1.
NonDegenerateCell(cell) ==
    RLt(cell.domain.u0, cell.domain.u1) /\ RLt(cell.domain.v0, cell.domain.v1)

\* C13: corner interpolation.  For every BezierPatch3 whose Domain has
\* u0 < u1 and v0 < v1, in both modes, compute at (u0, v0), (u1, v0),
\* (u0, v1), (u1, v1) returns the positions of controlPoints[0], [3], [12],
\* [15] (coordinates being exact fractions).
CornerInterpolation ==
    \A n \in 1..Len(bezierPatches.cells), mode \in {"bezier", "linear"} :
        LET cell == bezierPatches.cells[n]
            d == cell.domain
        IN  NonDegenerateCell(cell) =>
                /\ BezierPatch3Compute(points, cell, d.u0, d.v0, mode)
                       = points[CP(cell, 0)].pos
                /\ BezierPatch3Compute(points, cell, d.u1, d.v0, mode)
                       = points[CP(cell, 3)].pos
                /\ BezierPatch3Compute(points, cell, d.u0, d.v1, mode)
                       = points[CP(cell, 12)].pos
                /\ BezierPatch3Compute(points, cell, d.u1, d.v1, mode)
                       = points[CP(cell, 15)].pos

\* A 2 x 2 grid of cells with u0 < u1 and v0 < v1, after a drag, the four
\* corners of the first cell at four different positions.
CornerInterpolationWitness ==
    /\ bezierPatches.rowCount = 2 /\ bezierPatches.colCount = 2
    /\ NonDegenerate(bezierPatches)
    /\ moves = 1
    /\ Cardinality({points[CP(bezierPatches.cells[1], k)].pos : k \in {0, 3, 12, 15}}) = 4

\* Contents of the scratch vectors before a call: left by earlier calls.
ScratchChoices ==
    {<<Vec(R(7, 1), R(4, 1), Zero), Vec(R(1, 2), R(-3, 1), Zero)>>}

\* The points (u, v) of the calls: inside a cell, on cut lines, at a corner
\* of the unit square and outside it.
ComputePoints ==
    {<<R(1, 4), R(1, 4)>>, <<R(1, 2), R(3, 4)>>, <<One, One>>, <<R(2, 1), R(1, 2)>>}

\* The memory m holds the control points (positions and mirror links) and
\* the grid (dimensions, cells, Domains) of the current state.
ModelUntouched(m) == m.points = points /\ m.bezierPatches = bezierPatches

\* C14: compute has no side effects on the model.  A call of Patch.compute
\* or of BezierPatch3.compute on any cell, with any (u, v) and either mode,
\* leaves every control point position, every mirror link, every Domain and
\* the grid unchanged (it writes the scratch vectors only), and returns the
\* value of the patch.
ComputeNoSideEffects ==
    \A vec3 \in ScratchChoices, s \in ComputePoints, mode \in {"bezier", "linear"} :
        LET m == Memory(points, bezierPatches, vec3)
            whole == PatchComputeRun(m, s[1], s[2], mode)
        IN  /\ ModelUntouched(whole.memory)
            /\ whole.result = PatchCompute(points, bezierPatches, s[1], s[2], mode)
            /\ \A n \in 1..Len(bezierPatches.cells) :
                   LET run == BezierPatch3ComputeRun(m, bezierPatches.cells[n],
                                                     s[1], s[2], mode)
                   IN  /\ ModelUntouched(run.memory)
                       /\ run.result = BezierPatch3Compute(points,
                              bezierPatches.cells[n], s[1], s[2], mode)

\* A 2 x 2 grid after a drag, where a call in each mode overwrites a scratch
\* vector.
ComputeNoSideEffectsWitness ==
    /\ bezierPatches.rowCount = 2 /\ bezierPatches.colCount = 2
    /\ moves = 1
    /\ \A mode \in {"bezier", "linear"} : \E vec3 \in ScratchChoices :
           PatchComputeRun(Memory(points, bezierPatches, vec3),
                           R(1, 4), R(1, 4), mode).memory.vec3 # vec3

(* ------------------------- properties: errors ------------------------- *)

\* Indices outside {0, 1, 2, 3}, curve parameters, modes other than
\* "bezier" and "linear", and numbers of points other than 4.
BadIndices == {-1, 4, 5, 16}
CurveParams == {R(0, 1), R(1, 3), R(1, 1), R(5, 4)}
BadModes == {"cubic", "Bezier", "LINEAR", ""}
BadPointCounts == {0, 1, 2, 3, 5, 6}

\* C15: programmer errors fail immediately.  computeBernsteinBasis3(i, t)
\* and computeBernsetinDerivative3(i, t) throw for every i outside
\* {0, 1, 2, 3} (and give a number for i inside); BezierPatch3.compute and
\* Patch.compute throw for every mode other than "bezier" and "linear";
\* new BezierCurve3 of a number of points other than 4 throws (and of 4
\* points keeps them); the throwing calls change no control point, Domain,
\* grid cell or scratch vector.
ProgrammerErrors ==
    /\ \A i \in BadIndices, t \in CurveParams :
           /\ ComputeBernsteinBasis3(i, t) = Thrown("Invalid index for B3: ", i)
           /\ ComputeBernsetinDerivative3(i, t) = Thrown("Invalid index for B3': ", i)
    /\ \A i \in 0..3, t \in CurveParams :
           /\ Len(ComputeBernsteinBasis3(i, t)) = 2
           /\ Len(ComputeBernsetinDerivative3(i, t)) = 2
    /\ Initialised =>
           /\ \A n \in BadPointCounts :
                  BezierCurve3([k \in 1..n |-> points[k].pos])
                      = Thrown("4 points are required for a bezier curve", "")
           /\ BezierCurve3([k \in 1..4 |-> points[k].pos]).points
                  = [k \in 1..4 |-> points[k].pos]
           /\ \A mode \in BadModes, s \in ComputePoints, vec3 \in ScratchChoices :
                  LET m == Memory(points, bezierPatches, vec3)
                      thrown == Thrown("Invalid patch compute mode: ", mode)
                  IN  /\ \A n \in 1..Len(bezierPatches.cells) :
                             /\ BezierPatch3ComputeRun(m, bezierPatches.cells[n],
                                    s[1], s[2], mode) = [memory |-> m, result |-> thrown]
                             /\ BezierPatch3Compute(points, bezierPatches.cells[n],
                                    s[1], s[2], mode) = thrown
                      /\ CellsContaining(bezierPatches, s[1], s[2]) # {} =>
                             /\ PatchComputeRun(m, s[1], s[2], mode)
                                    = [memory |-> m, result |-> thrown]
                             /\ PatchCompute(points, bezierPatches, s[1], s[2], mode)
                                    = thrown

\* A 2 x 2 grid after a drag: four patches whose compute can be called with
\* a wrong mode.
ProgrammerErrorsWitness ==
    /\ bezierPatches.rowCount = 2 /\ bezierPatches.colCount = 2
    /\ moves = 1
    /\ \E s \in ComputePoints : CellsContaining(bezierPatches, s[1], s[2]) # {}
    /\ \A mode \in BadModes : mode \notin {"bezier", "linear"}

(* ------------------------- properties: curves ------------------------- *)

\* The control points (heap indices) of the four rows and the four columns
\* of the 4 x 4 layout of a cell: the curves the subdivisions split.
CurvesOf(cell) ==
    {<<CP(cell, 4 * r), CP(cell, 4 * r + 1), CP(cell, 4 * r + 2), CP(cell, 4 * r + 3)>>
        : r \in 0..3}
    \cup {<<CP(cell, c), CP(cell, c + 4), CP(cell, c + 8), CP(cell, c + 12)>> : c \in 0..3}

\* The parameters t of the splits: the ends, inside and beyond [0, 1].
SplitParams == {R(-1, 1), R(0, 1), R(1, 2), R(1, 1), R(2, 1)}

\* C16: de Casteljau split.  For every cubic P0..P3 and every t,
\* subdivideCurve(t, P0, P1, P2, P3) returns c0 and c1 of 4 points each
\* with c0[0] = P0, c1[3] = P3, c0[3] = c1[0] = the curve point at t, c0[k]
\* the first point of round k of de Casteljau and c1 the last points of the
\* rounds in reverse order; c0 followed by c1 is the original curve
\* (compared at t = 1/2 and t = 2, in the middle of c0 and of c1); the
\* points passed are not modified.
DeCasteljauSplit ==
    \A n \in 1..Len(bezierPatches.cells) :
        \A ps \in CurvesOf(bezierPatches.cells[n]), t \in SplitParams :
            LET P == [k \in 1..4 |-> points[ps[k]].pos]
                run == SubdivideCurveRun(points, t, ps)
                c0 == run.curves[1]
                c1 == run.curves[2]
                round1 == DeCasteljau(t, P)
                round2 == DeCasteljau(t, round1)
                round3 == DeCasteljau(t, round2)
            IN  /\ Len(run.curves) = 2 /\ Len(c0) = 4 /\ Len(c1) = 4
                /\ c0 = <<P[1], round1[1], round2[1], round3[1]>>
                /\ c1 = <<round3[1], round2[2], round1[3], P[4]>>
                /\ c1[1] = c0[4]
                /\ t \in {R(1, 2), R(2, 1)} =>
                       /\ c0[4] = BezierCurve3Compute(P, t)
                       /\ BezierCurve3Compute(c0, R(1, 2))
                              = BezierCurve3Compute(P, RMul(t, R(1, 2)))
                       /\ BezierCurve3Compute(c1, R(1, 2))
                              = BezierCurve3Compute(P,
                                    RAdd(t, RMul(RSub(One, t), R(1, 2))))
                /\ run.points = points

\* A 2 x 2 grid after a drag, a curve of whose first cell is not a straight
\* evenly spaced line: its split at 1/2 does not start midway between P0
\* and P3.
DeCasteljauSplitWitness ==
    /\ bezierPatches.rowCount = 2 /\ bezierPatches.colCount = 2
    /\ moves = 1
    /\ \E ps \in CurvesOf(bezierPatches.cells[1]) :
           SubdivideCurveRun(points, R(1, 2), ps).curves[2][1]
               # VLerp(points[ps[1]].pos, points[ps[4]].pos, R(1, 2))

(* -------------------------- properties: Grid -------------------------- *)

\* C17 as stated: for every Grid, from its construction with any
\* non-negative integer rows and cols on and after any sequence of
\* inserRow, insertColumn, deleteRow, deleteColumn and set with indices in
\* range, cells.length = rowCount * colCount.
GridSizeInvariant ==
    Len(bezierPatches.cells) = bezierPatches.rowCount * bezierPatches.colCount

\* The cells of g at (i, j), i and j in range, read from the array.
CellAt(g, i, j) == GridGet(g, i, j)

RowRange(g) == 0..(g.rowCount - 1)
ColRange(g) == 0..(g.colCount - 1)

\* g2 is g with one all-null row inserted at index k, every cell of g kept.
RowInserted(g, g2, k) ==
    /\ g2.rowCount = g.rowCount + 1
    /\ g2.colCount = g.colCount
    /\ Len(g2.cells) = g2.rowCount * g2.colCount
    /\ \A j \in ColRange(g) : CellAt(g2, k, j) = NullCell
    /\ \A i \in RowRange(g), j \in ColRange(g) :
           CellAt(g2, IF i < k THEN i ELSE i + 1, j) = CellAt(g, i, j)

\* g2 is g with one all-null column inserted at index k, every cell of g kept.
ColumnInserted(g, g2, k) ==
    /\ g2.rowCount = g.rowCount
    /\ g2.colCount = g.colCount + 1
    /\ Len(g2.cells) = g2.rowCount * g2.colCount
    /\ \A i \in RowRange(g) : CellAt(g2, i, k) = NullCell
    /\ \A i \in RowRange(g), j \in ColRange(g) :
           CellAt(g2, i, IF j < k THEN j ELSE j + 1) = CellAt(g, i, j)

\* g2 is g without its row k, every other cell kept in order.
RowDeleted(g, g2, k) ==
    /\ g2.rowCount = g.rowCount - 1
    /\ g2.colCount = g.colCount
    /\ Len(g2.cells) = g2.rowCount * g2.colCount
    /\ \A i \in RowRange(g) \ {k}, j \in ColRange(g) :
           CellAt(g2, IF i < k THEN i ELSE i - 1, j) = CellAt(g, i, j)

\* g2 is g without its column k, every other cell kept in order.
ColumnDeleted(g, g2, k) ==
    /\ g2.rowCount = g.rowCount
    /\ g2.colCount = g.colCount - 1
    /\ Len(g2.cells) = g2.rowCount * g2.colCount
    /\ \A i \in RowRange(g), j \in ColRange(g) \ {k} :
           CellAt(g2, i, IF j < k THEN j ELSE j - 1) = CellAt(g, i, j)

\* An insertion followed by the deletion at the same index gives g back.
InsertDeleteRestores(g) ==
    /\ \A k \in 0..g.rowCount : DeleteRow(InserRow(g, k), k) = g
    /\ \A k \in 0..g.colCount : DeleteColumn(InsertColumn(g, k), k) = g

\* get returns null for every index out of range.
GetNullOutOfRange(g) ==
    \A i \in (-1)..(g.rowCount + 1), j \in (-1)..(g.colCount + 1) :
        (i \notin RowRange(g) \/ j \notin ColRange(g)) => GridGet(g, i, j) = NullCell

\* What a step of the Grid does to its cells, and what holds of the grid
\* it starts from.
GridSpliceStep ==
    /\ last'.op = "inserRow" =>
           RowInserted(bezierPatches, bezierPatches', last'.args[1])
    /\ last'.op = "insertColumn" =>
           ColumnInserted(bezierPatches, bezierPatches', last'.args[1])
    /\ last'.op = "deleteRow" =>
           RowDeleted(bezierPatches, bezierPatches', last'.args[1])
    /\ last'.op = "deleteColumn" =>
           ColumnDeleted(bezierPatches, bezierPatches', last'.args[1])
    /\ InsertDeleteRestores(bezierPatches)
    /\ GetNullOutOfRange(bezierPatches)

CornerIndices == {0, 3, 12, 15}
DerivedPoints ==
    {<<1, 0, 3, R(1, 3)>>, <<2, 0, 3, R(2, 3)>>,
     <<4, 0, 12, R(1, 3)>>, <<8, 0, 12, R(2, 3)>>,
     <<13, 12, 15, R(1, 3)>>, <<14, 12, 15, R(2, 3)>>,
     <<7, 3, 15, R(1, 3)>>, <<11, 3, 15, R(2, 3)>>,
     <<5, 4, 7, R(1, 3)>>, <<6, 4, 7, R(2, 3)>>,
     <<9, 8, 11, R(1, 3)>>, <<10, 8, 11, R(2, 3)>>}

\* The cells of the grid g.
CellsOf(g) == {g.cells[n] : n \in 1..Len(g.cells)} \ {NullCell}

\* Between the heaps h and h2 no point has changed in anything but its
\* position.
OnlyPositionsChange(h, h2) ==
    /\ Len(h2) = Len(h)
    /\ \A p \in 1..Len(h) : [h2[p] EXCEPT !.pos = h[p].pos] = h[p]

\* In h2 the corners of the cell are where they are in h and each other
\* point is at its fraction of the way between its two points.
LinearLayout(h, h2, cell) ==
    /\ \A k \in CornerIndices :
           h2[cell.controlPoints[k + 1]].pos = h[cell.controlPoints[k + 1]].pos
    /\ \A d \in DerivedPoints :
           h2[cell.controlPoints[d[1] + 1]].pos
             = VLerp(h2[cell.controlPoints[d[2] + 1]].pos,
                     h2[cell.controlPoints[d[3] + 1]].pos, d[4])

UpdateStep ==
    last'.op = "update" =>
        /\ bezierPatches' = bezierPatches
        /\ OnlyPositionsChange(points, points')
        /\ last'.mode = "bezier" => points' = points
        /\ (last'.mode = "linear" /\ ~last'.previewMode) =>
               \A cell \in CellsOf(bezierPatches) : LinearLayout(points, points', cell)

\* C19: with mode "bezier" Patch.update() changes no control-point
\* position; with mode "linear" and not in preview mode it leaves the
\* corners 0, 3, 12, 15 of every cell unchanged and puts the other twelve
\* points at 1/3 and 2/3 of the way: 1, 2 from cp0 to cp3; 4, 8 from cp0 to
\* cp12; 13, 14 from cp12 to cp15; 7, 11 from cp3 to cp15; 5, 6 from cp4 to
\* cp7; 9, 10 from cp8 to cp11. In neither mode does it change the grid,
\* the Domains or the mirror links.
UpdateAndMode == [][UpdateStep]_vars

\* C19 witness: update has run in "linear" mode, not in preview mode, on a
\* patch of several cells after a drag, and a point of the drag is back
\* on the line between the corners.
UpdateAndModeWitness ==
    /\ last.op = "update"
    /\ last.mode = "linear"
    /\ ~last.previewMode
    /\ moves = 1
    /\ Len(bezierPatches.cells) >= 2
    /\ \A cell \in CellsOf(bezierPatches) : LinearLayout(points, points, cell)

(* ----------------------- properties: undo / redo ---------------------- *)

\* The patch (heap h, grid g) is the state the history entry records: its
\* grid dimensions, Domains, slot positions, sharing of slots and mirror
\* links between slots are those written in the entry.
IsRecorded(h, g, entry) == Save(h, g).data = entry.patchData

\* The step has recorded an edit with saveHistory.
RecordedEdit ==
    /\ last'.op \in {"click HorizontalCut", "click VerticalCut", "mouseup",
                     "alignSelectedPoints"}
    /\ history' # history

\* After a recorded edit the new entry is the newest one, the entries up to
\* the one that was current are kept, it records the patch, an undo from
\* here gives the patch the entry before it records (the patch before the
\* edit), and a redo after that undo gives the patch of now.
RecordedEditStep ==
    \A u \in {Undo(points', bezierPatches', patchCount', history')} :
      \A r \in {Redo(u.patch.points, u.patch.grid,
                     patchCount' + Len(u.patch.grid.cells), u.history)} :
        /\ history'.index = history.index + 1
        /\ Len(history'.data) = history'.index + 1
        /\ \A k \in 1..(history.index + 1) : history'.data[k] = history.data[k]
        /\ IsRecorded(points', bezierPatches', HistoryCurrent(history'))
        /\ u.history.index = history.index
        /\ u.history.data = history'.data
        /\ IsRecorded(u.patch.points, u.patch.grid, HistoryCurrent(history))
        /\ last'.op # "mouseup" =>
               SameUpToIdentity(points, bezierPatches, u.patch.points, u.patch.grid)
        /\ r.history = history'
        /\ IsRecorded(r.patch.points, r.patch.grid, HistoryCurrent(history'))
        /\ SameUpToIdentity(points', bezierPatches', r.patch.points, r.patch.grid)

\* A drag starts: the history is untouched, and the mouseup that records
\* it followed by an undo gives the patch of before the drag.
DragStep ==
    \A s \in {SaveHistory(points', bezierPatches', history')} :
      \A u \in {Undo(s.points, bezierPatches', patchCount', s.history)} :
        /\ history' = history
        /\ SameUpToIdentity(points, bezierPatches, u.patch.points, u.patch.grid)

\* undo: one entry back, none below the oldest; the entries are kept and
\* the patch is the one the entry records.
UndoStep ==
    /\ history'.data = history.data
    /\ history'.index = (IF history.index = 0 THEN 0 ELSE history.index - 1)
    /\ IsRecorded(points', bezierPatches', HistoryCurrent(history'))

\* redo: one entry forward, none above the newest.
RedoStep ==
    /\ history'.data = history.data
    /\ history'.index = (IF history.index = Len(history.data) - 1
                          THEN history.index ELSE history.index + 1)
    /\ IsRecorded(points', bezierPatches', HistoryCurrent(history'))

HistoryStep ==
    /\ RecordedEdit => RecordedEditStep
    /\ (last'.op = "mousemove" /\ last.op # "mousemove") => DragStep
    /\ last'.op = "undo" => UndoStep
    /\ last'.op = "redo" => RedoStep

\* C20: after any edit recorded with saveHistory (a cut, a completed drag,
\* an alignment), undo() makes the patch equal to the state recorded before
\* that edit (grid dimensions, Domains, control-point positions, sharing
\* and mirror links) and a following redo() makes it equal to the recorded
\* state after the edit; undo() at the oldest entry and redo() at the
\* newest leave the patch equal to that entry; an edit recorded after one
\* or more undos discards all redo entries.
UndoRedo == [][HistoryStep]_vars

\* C20 witness: a cut has been undone and redone: the history holds two
\* entries, the newest is current and redo has rebuilt the two cells.
UndoRedoWitness ==
    /\ last.op = "redo"
    /\ Len(history.data) = 2
    /\ history.index = 1
    /\ Len(bezierPatches.cells) = 2
    /\ IsRecorded(points, bezierPatches, HistoryCurrent(history))

(* -------------------------- properties: save -------------------------- *)

\* The reference ids the patches of a save() result list.
UsedIds(data) ==
    {data.patches[c].controlPoints[k] : c \in 1..Len(data.patches), k \in 1..16}

\* C21 as stated: in the object save() returns, the reference ids in the
\* patches' controlPoints lists are exactly 0..n-1, n the number of records
\* of the emitted controlPoints list.
DenseReferenceIds ==
    Initialised =>
        \A data \in {Save(points, bezierPatches).data} :
            UsedIds(data) = 0..(Len(data.controlPoints) - 1)

(* ------------------------ properties: transpose ----------------------- *)

\* The index transpose of a 4 x 4 cell: 4 * r + c -> 4 * c + r.
TransposeIndex(k) == 4 * (k % 4) + (k \div 4)

\* The indices at which the bottom and the top patch of a horizontal cut
\* keep the objects of the cell they come from.
BottomKept == 0..7
TopKept == 8..15

\* The new cell keeps, at every index of kept, the object the old cell
\* has at that index.
KeepsObjects(old, new, kept) == \A k \in kept : CP(new, k) = CP(old, k)

\* A horizontal cut of row i leaves the bottom patches in row i and the
\* top patches in row i + 1, each keeping the objects of its half.
HorizontalKeeps ==
    \A i \in {RowIndexOf(bezierPatches, last'.cut)} :
        \A j \in 0..(bezierPatches.colCount - 1) :
            /\ KeepsObjects(GridGet(bezierPatches, i, j),
                            GridGet(bezierPatches', i, j), BottomKept)
            /\ KeepsObjects(GridGet(bezierPatches, i, j),
                            GridGet(bezierPatches', i + 1, j), TopKept)

\* The transpose: a vertical cut of column j leaves the left patches in
\* column j and the right patches in column j + 1, each keeping the objects
\* at the transposed indices (left 0,1,4,5,8,9,12,13; right the others).
VerticalKeeps ==
    \A j \in {ColIndexOf(bezierPatches, last'.cut)} :
        \A i \in 0..(bezierPatches.rowCount - 1) :
            /\ KeepsObjects(GridGet(bezierPatches, i, j), GridGet(bezierPatches', i, j),
                            {TransposeIndex(k) : k \in BottomKept})
            /\ KeepsObjects(GridGet(bezierPatches, i, j), GridGet(bezierPatches', i, j + 1),
                            {TransposeIndex(k) : k \in TopKept})

HorizontalKeepsObjects ==
    [][(last'.op = "subdivideHorizontal" /\ ~last'.threw) => HorizontalKeeps]_vars

\* C22 as stated, in its particular: subdivideVertical is the transpose of
\* subdivideHorizontal, so every control-point object of a cell that
\* survives a cut sits in the new patch at the index it had (horizontal:
\* bottom keeps 0..7, top keeps 8..15; vertical: left keeps
\* 0,1,4,5,8,9,12,13, right keeps 2,3,6,7,10,11,14,15).
VerticalIsTranspose ==
    [][/\ (last'.op = "subdivideHorizontal" /\ ~last'.threw) => HorizontalKeeps
       /\ (last'.op = "subdivideVertical" /\ ~last'.threw) => VerticalKeeps]_vars

(* ------------------------- properties: History ------------------------ *)

\* insert(e) has stored e right after the element that was current and
\* deleted what came after it.
InsertStep ==
    /\ history'.index = history.index + 1
    /\ HistoryCurrent(history') = last'.args[1]
    /\ Len(history'.data) = history'.index + 1
    /\ history'.data[Len(history'.data)] = last'.args[1]
    /\ \A k \in 1..(history.index + 1) : history'.data[k] = history.data[k]

\* C23: in every History state reached by a sequence of insert / back /
\* forward that starts with an insert, insert(e) stores e right after the
\* current element and deletes all elements after it: afterwards current()
\* is e, e is the last element of data and the elements up to the previous
\* current one are unchanged.
InsertAfterCurrent == [][last'.op = "insert" => InsertStep]_vars

\* C23 witness: an insert made two steps back from the newest of three
\* elements has left two elements, the new one current.
InsertAfterCurrentWitness ==
    /\ last.op = "insert"
    /\ patchCount = 4
    /\ history.data = <<1, 4>>
    /\ history.index = 1

\* C28 as stated: in every state reachable from a new History by any
\* sequence of insert, back and forward (back or forward on an empty
\* history included), index = -1 if data is empty and
\* 0 <= index <= data.length - 1 otherwise.
HistoryIndexInvariant ==
    IF history.data = <<>> THEN history.index = -1
    ELSE 0 <= history.index /\ history.index <= Len(history.data) - 1

(* ------------------------- properties: handles ------------------------ *)

\* The control points whose DOM handle is attached to the container.
AttachedPoints(h) == {p \in 1..Len(h) : h[p].attached}

\* C24 as stated: in every state reachable by initFromCorners,
\* subdivideHorizontal / subdivideVertical, save, restore and undo / redo,
\* the control points whose handle is attached to the container are the
\* control points referenced by the cells of the current grid.
NoOrphanHandles == AttachedPoints(points) = PointsOf(bezierPatches.cells)

(* ----------------------- properties: mirror links --------------------- *)

\* The 0-based indices the control point p has in the cells of the grid.
IndicesOf(p) ==
    {k \in 0..15 : \E c \in CellsOf(bezierPatches) : CP(c, k) = p}

TangentIndices == {1, 2, 4, 7, 8, 11, 13, 14}

InteriorIndices == {5, 6, 9, 10}

\* C25: after initFromCorners and subdivisions, a control point p of the
\* grid with mirror link (other = q, reference = r) has q linked back to p
\* with the same reference r; p, q and r are three distinct control points
\* of the grid, r is a corner of a cell, p and q are edge tangent points,
\* and corner and interior points carry no link.
MirrorLinksSymmetric ==
    \A p \in PointsOf(bezierPatches.cells) :
        LET mp == points[p].mirrorPoint
        IN  IF mp = NoLink
            THEN TRUE
            ELSE /\ mp.other \in PointsOf(bezierPatches.cells)
                 /\ mp.reference \in PointsOf(bezierPatches.cells)
                 /\ points[mp.other].mirrorPoint = [other |-> p, reference |-> mp.reference]
                 /\ Cardinality({p, mp.other, mp.reference}) = 3
                 /\ IndicesOf(mp.reference) \subseteq CornerIndices
                 /\ IndicesOf(p) \subseteq TangentIndices
                 /\ IndicesOf(mp.other) \subseteq TangentIndices
                 /\ IndicesOf(p) # {}

\* Corner and interior points never carry a link.
CornersAndInteriorsUnlinked ==
    \A p \in PointsOf(bezierPatches.cells) :
        IndicesOf(p) \cap (CornerIndices \cup InteriorIndices) # {}
            => points[p].mirrorPoint = NoLink

MirrorLinks == MirrorLinksSymmetric /\ CornersAndInteriorsUnlinked

\* A 2 x 2 grid after a cut of each kind, the tangent points around its
\* inner corner linked across the cell borders.
MirrorLinksWitness ==
    /\ last.op \in {"subdivideHorizontal", "subdivideVertical"}
    /\ ~last.threw
    /\ bezierPatches.rowCount = 2
    /\ bezierPatches.colCount = 2
    /\ \E p \in PointsOf(bezierPatches.cells) :
           /\ points[p].mirrorPoint # NoLink
           /\ IndicesOf(p) = {1, 13}
           /\ IndicesOf(points[p].mirrorPoint.reference) = CornerIndices

(* --------------------- properties: row and column spans --------------- *)

\* All cells of row i of the grid have the v span of its first cell.
RowSpanShared(g, i) ==
    \A j \in 0..(g.colCount - 1) :
        /\ Cell(g, i, j).domain.v0 = Cell(g, i, 0).domain.v0
        /\ Cell(g, i, j).domain.v1 = Cell(g, i, 0).domain.v1

\* All cells of column j of the grid have the u span of its first cell.
ColSpanShared(g, j) ==
    \A i \in 0..(g.rowCount - 1) :
        /\ Cell(g, i, j).domain.u0 = Cell(g, 0, j).domain.u0
        /\ Cell(g, i, j).domain.u1 = Cell(g, 0, j).domain.u1

\* C27: after initFromCorners and subdivisions with cuts in [0,1], the cells
\* of one row share (v0, v1) and the cells of one column share (u0, u1);
\* row 0 starts at v = 0, the last row ends at v = 1 and each row starts
\* where the one before ends, and so for the columns in u. The span of the
\* first cell of a row or column is then the span of all its cells.
SpanConsistency ==
    Initialised =>
        LET g == bezierPatches
        IN  /\ \A i \in 0..(g.rowCount - 1) : RowSpanShared(g, i)
            /\ \A j \in 0..(g.colCount - 1) : ColSpanShared(g, j)
            /\ Cell(g, 0, 0).domain.v0 = Zero
            /\ Cell(g, g.rowCount - 1, 0).domain.v1 = One
            /\ \A i \in 0..(g.rowCount - 2) :
                   Cell(g, i + 1, 0).domain.v0 = Cell(g, i, 0).domain.v1
            /\ Cell(g, 0, 0).domain.u0 = Zero
            /\ Cell(g, 0, g.colCount - 1).domain.u1 = One
            /\ \A j \in 0..(g.colCount - 2) :
                   Cell(g, 0, j + 1).domain.u0 = Cell(g, 0, j).domain.u1

\* A 2 x 2 grid cut at v = 1/4 and u = 3/4.
SpanConsistencyWitness ==
    /\ last.op \in {"subdivideHorizontal", "subdivideVertical"}
    /\ bezierPatches.rowCount = 2
    /\ bezierPatches.colCount = 2
    /\ Cell(bezierPatches, 1, 1).domain = Domain(R(3, 4), R(1, 4), One, One)

(* ----------------------- properties: cuts outside --------------------- *)

\* No row of the grid has a span that contains v.
InNoRowSpan(g, v) ==
    \A i \in 0..(g.rowCount - 1) :
        ~(RLe(Cell(g, i, 0).domain.v0, v) /\ RLe(v, Cell(g, i, 0).domain.v1))

\* No column of the grid has a span that contains u.
InNoColumnSpan(g, u) ==
    \A j \in 0..(g.colCount - 1) :
        ~(RLe(Cell(g, 0, j).domain.u0, u) /\ RLe(u, Cell(g, 0, j).domain.u1))

\* The step is a subdivision at a parameter no row, or no column, contains.
CutOutsideStep ==
    \/ last'.op = "subdivideHorizontal" /\ InNoRowSpan(bezierPatches, last'.cut)
    \/ last'.op = "subdivideVertical" /\ InNoColumnSpan(bezierPatches, last'.cut)

\* C29: subdivideHorizontal(v) with v in no row span and subdivideVertical(u)
\* with u in no column span fail with an error and leave the grid, its
\* cells and their Domains, and the positions and mirror links of all
\* control points unchanged.
OutOfRangeCut ==
    [][CutOutsideStep =>
          /\ last'.threw
          /\ bezierPatches' = bezierPatches
          /\ points' = points]_vars

\* A cut at u = 3/2 has failed on a grid of two columns.
OutOfRangeCutWitness ==
    /\ last.op = "subdivideVertical"
    /\ last.cut = R(3, 2)
    /\ last.threw
    /\ bezierPatches.colCount = 2

(* ------------------------ properties: selection ----------------------- *)

\* C26 as stated: after every handled event or call (mousedown, mouseup, a
\* click with a cut tool, undo, redo, restore, reset) every element of
\* selectedControlPoints is a control point referenced by a cell of the
\* current grid.
SelectionValid ==
    \A n \in 1..Len(selectedControlPoints) :
        selectedControlPoints[n] \in PointsOf(bezierPatches.cells)

(* ------------------------- properties: textures ----------------------- *)

\* C30 as stated, the ordering: when configure is called with a texture A
\* and later with a texture B while A is still loading, then once both
\* loads have arrived the map of the plane material is the texture of B,
\* the latest options.texture, whichever load arrives first.
TextureLoadOrdering ==
    \A n \in 1..Len(textures.requests) : \A m \in 1..(n - 1) :
        (/\ n = Len(textures.requests)
         /\ m \in textures.requests[n].during
         /\ textures.requests[m].url # textures.requests[n].url
         /\ textures.requests[m].state = "loaded"
         /\ textures.requests[n].state = "loaded")
        => /\ textures.map = textures.requests[n].url
           /\ textures.map = textures.texture

\* C30 as stated, the empty url: Textures.load with an empty url resolves
\* with null without invoking the underlying loader.
EmptyUrlSkipsLoader ==
    \A n \in 1..Len(textures.loaderCalls) : ~Falsy(textures.loaderCalls[n])

====
